---- MODULE Spec2Model ----
(***************************************************************************)
(* Streaming chat client (src/main.c): the update queue, the streaming     *)
(* session controller, the message store and the frame loop that ties      *)
(* them together.                                                          *)
(*                                                                         *)
(* Two specifications share the variables:                                 *)
(*   Spec   the application: the render thread's frame loop (poll one      *)
(*          event, handle it, render the frame) against the generation     *)
(*          collaborator's callback threads.  Every critical section of    *)
(*          the streaming mutex is one step.                               *)
(*   QSpec  the update queue alone under producer threads that call        *)
(*          queue_message_update concurrently with the render thread's     *)
(*          process_message_updates, one step per lock operation and per   *)
(*          statement inside the consumer's critical section.              *)
(*                                                                         *)
(* Strings are sequences of characters.  A C pointer that may be NULL is   *)
(* a sequence of length 0 (NULL) or 1 (the pointee).                       *)
(***************************************************************************)
EXTENDS Integers, Sequences, FiniteSets, TLC

\* ------------------------------------------------------------- bounds
MaxStarts == 2        \* generations the user starts (Spec)
MaxChunks == 2        \* text chunks the collaborator delivers in all (Spec)
NumProducers == 2     \* producer threads (QSpec)
MaxUpdates == 3       \* enqueue calls of all producer threads (QSpec)
MaxToolCalls == 2     \* tool invocations during one generation (ToolSpec)
MaxTextLen == 6       \* codepoints of a text given to the wrapper (WrapSpec)
MaxWidth == 6         \* widths given to the wrapper (WrapSpec)
MaxCodeLen == 5       \* characters of a code line (LexSpec)
MaxAnsiLen == 6       \* bytes of a line given to the renderer (AnsiSpec)
NumCallers == 2       \* threads calling the library (LibSpec)
MaxSlots == 2         \* session entries of a context, 32 in ai.c (LibSpec)
MaxLibCalls == 3      \* library calls made in a behaviour (LibSpec)
MaxStore == 6         \* messages in the store when a command fails (ClearSpec)
MaxHeadLen == 2       \* characters of a heading's text (HeadSpec)
MaxQuote == 1         \* block quotes around a heading (HeadSpec)
MaxCellChars == 2     \* characters of a table cell (TableSpec)
MaxCols == 2          \* columns of a table (TableSpec)
MaxRows == 2          \* rows of a table, the header row included (TableSpec)
TableCellsCap == 3    \* cells a buffered row holds, 64 in md4c_ansi.c (TableBufSpec)
TableRowsCap == 3     \* rows the table buffer holds, 128 in md4c_ansi.c (TableBufSpec)
CodeContentWidth == 6 \* cells of a code row, 40 in md4c_ansi.c (BreakSpec)
MaxBreakLen == 8      \* characters of a line given to the two wrappers (BreakSpec)
MaxContentLen == 11   \* bytes of the ANSI text of a message (CacheSpec)
CacheChatWidth == 14  \* app.chat_width, at least 40 in main.c (CacheSpec)
MaxChatLines == 3     \* lines the content of a message renders to (ScrollSpec)
MaxChatMsgs == 3      \* messages in the store (ScrollSpec)
MaxChatHeight == 3    \* app.chat_height, rows of the chat area (ScrollSpec)
CursorBlinkFrames == 2 \* ticks of a cursor blink period, 30 in main.c (ScrollSpec)

\* ---------------------------------------------------------- constants
AI_INVALID_ID == 0
NULL == <<>>
NULL_MSG == 0
RenderThread == 0
MutexFree == -1

MSG_USER == "user"
MSG_ASSISTANT == "assistant"
MSG_SYSTEM == "system"

Ptr(x) == <<x>>
Deref(p) == p[1]

\* The text of the k-th chunk stream s delivers: k characters, each naming
\* the stream and the chunk, so that no two chunks are equal and chunk
\* lengths differ.
ChunkText(s, k) == [i \in 1..k |-> <<s, k>>]

\* The error-tagged payload ("Error: ...") with which stream s ends when
\* its generation fails.
ErrorText(s) == << <<s, 0>> >>

\* The fixed texts of the program.  A character is a pair, as in ChunkText;
\* the pairs <<0, n>> are not characters of any chunk.
Prompt == << <<0, 1>> >>
ErrStartFailed == << <<0, 2>> >>
TextCancelled == << <<0, 3>> >>
TextCancelFailed == << <<0, 4>> >>
TextGenerationFailed == << <<0, 5>> >>
TextAiError == << <<0, 6>> >>
TextFailedToGenerate == << <<0, 8>> >>
ToolParameters == << <<0, 7>> >>

StreamIds == 1..MaxStarts
Producers == 1..NumProducers

VARIABLES
  \* app.streaming
  active, stream_id, waiting_for_stream, accumulated_text, accumulated_length,
  \* app.messages, app.current_streaming
  messages, current_streaming,
  \* app.update_queue
  queue_head, queue_tail, queue_mutex,
  \* render thread: position in the frame loop and the locals of the
  \* handler it is in
  pc, streaming_active, local_stream_id, current,
  \* generation collaborator: one entry per stream handle
  streams,
  \* producer threads of QSpec
  prod,
  \* history
  session_stream, delivered, finished, enq_log, applied_log, batch_start,
  tool_log,
  \* the text functions (wrapping, escape parsing, highlighting) checked on
  \* their own: the arguments of the call and what it produced
  fn_args, fn_result,
  \* the AI library (ai.c): the heap block of the context, the sessions
  \* the bridge holds, and the threads that are inside a library call
  context, bridge, caller,
  \* history of the library's calls
  lib_hist

vars == <<active, stream_id, waiting_for_stream, accumulated_text,
          accumulated_length, messages, current_streaming, queue_head,
          queue_tail, queue_mutex, pc, streaming_active, local_stream_id,
          current, streams, prod, session_stream, delivered, finished,
          enq_log, applied_log, batch_start, tool_log, fn_args, fn_result,
          context, bridge, caller, lib_hist>>

streamingVars == <<active, stream_id, waiting_for_stream, accumulated_text,
                   accumulated_length>>
queueVars == <<queue_head, queue_tail, queue_mutex>>
fnVars == <<fn_args, fn_result>>
libVars == <<context, bridge, caller, lib_hist>>

\* The library is not in use: no context, no bridge session, no call.
LibIdle == context = <<>> /\ bridge = {} /\ caller = <<>> /\ lib_hist = <<>>
qHist == <<enq_log, applied_log, batch_start, tool_log, fnVars, libVars>>
histVars == <<session_stream, delivered, finished, qHist>>

\* ------------------------------------------------------- pure helpers
IsPrefix(s, t) == Len(s) <= Len(t) /\ SubSeq(t, 1, Len(s)) = s

\* clone_tool_executions: a deep copy of the list; an empty list is NULL.
clone_tool_executions(src) == src

\* An update that holds no copy of the content it was made for.
CreateUpdateBare(node, msg, content, is_streaming, tool_executions) ==
  [node |-> node,
   target_message |-> msg,
   new_content |-> NULL,
   is_streaming |-> is_streaming,
   new_tool_executions |-> clone_tool_executions(tool_executions),
   process_markdown |-> (content # NULL)]

\* create_message_update: a value copy of the arguments.  node is the
\* address malloc returned for the update.
create_message_update(node, msg, content, is_streaming, tool_executions) ==
  [node |-> node,
   target_message |-> msg,
   new_content |-> content,
   is_streaming |-> is_streaming,
   new_tool_executions |-> clone_tool_executions(tool_executions),
   process_markdown |-> (content # NULL)]

\* The append inside queue_message_update's critical section.
QueueAppendLifo(head, tail, update) ==
  [head |-> <<update>> \o head, tail |-> Ptr(update.node)]

QueueAppendDropping(head, tail, update) ==
  [head |-> <<update>>, tail |-> Ptr(update.node)]

QueueAppend(head, tail, update) ==
  IF tail # NULL
    THEN [head |-> Append(head, update), tail |-> Ptr(update.node)]
    ELSE [head |-> <<update>>, tail |-> Ptr(update.node)]

\* The body of process_message_updates' loop for one update, on one
\* message of the store.
ApplyToMessageWhole(m, u) ==
  IF u.target_message = m.addr
    THEN [m EXCEPT
            !.content = u.new_content,
            !.is_streaming = u.is_streaming,
            !.tool_executions = u.new_tool_executions,
            !.needs_rerender = ~(u.process_markdown /\ u.new_content # NULL)]
    ELSE m

ApplyToMessageKeepsFlag(m, u) ==
  IF u.target_message # NULL_MSG /\ u.target_message = m.addr
    THEN [m EXCEPT
            !.content = IF u.new_content # NULL
                          THEN u.new_content ELSE @,
            !.tool_executions = IF u.new_tool_executions # NULL
                                  THEN u.new_tool_executions ELSE @,
            !.needs_rerender = ~(u.process_markdown /\ u.new_content # NULL)]
    ELSE m

ApplyToMessage(m, u) ==
  IF u.target_message # NULL_MSG /\ u.target_message = m.addr
    THEN [m EXCEPT
            !.content = IF u.new_content # NULL
                          THEN u.new_content ELSE @,
            !.is_streaming = u.is_streaming,
            !.tool_executions = IF u.new_tool_executions # NULL
                                  THEN clone_tool_executions(
                                         u.new_tool_executions)
                                  ELSE @,
            !.needs_rerender = ~(u.process_markdown /\ u.new_content # NULL)]
    ELSE m

ApplyUpdate(msgs, u) == [i \in 1..Len(msgs) |-> ApplyToMessage(msgs[i], u)]

\* The while loop of process_message_updates over the detached list: the
\* updates are applied from the head on, each one freed after it is
\* applied.  st.msgs is the message store, st.log the nodes applied so far.
RECURSIVE ProcessList(_, _)
ProcessList(st, list) ==
  IF list = <<>> THEN st
  ELSE ProcessList([msgs |-> ApplyUpdate(st.msgs, Head(list)),
                    log |-> Append(st.log, Head(list).node)],
                   Tail(list))

ApplyAllReversed(msgs, list) ==
  ProcessList([msgs |-> msgs, log |-> <<>>],
              [i \in 1..Len(list) |-> list[Len(list) + 1 - i]])

ApplyAll(msgs, list) == ProcessList([msgs |-> msgs, log |-> <<>>], list)

\* render_frame's loop: every message flagged dirty is re-rendered.
RenderDirty(msgs) ==
  [i \in 1..Len(msgs) |-> [msgs[i] EXCEPT !.needs_rerender = FALSE]]

\* add_message: a new message at the end of the store.
NewAddr(msgs) == Len(msgs) + 1

add_message(msgs, type, content) ==
  Append(msgs, [addr |-> NewAddr(msgs), type |-> type,
                content |-> Ptr(content), is_streaming |-> FALSE,
                needs_rerender |-> TRUE, tool_executions |-> NULL])

LastAddr(msgs) == IF msgs = <<>> THEN NULL_MSG ELSE msgs[Len(msgs)].addr

MessageAt(addr) ==
  messages[CHOOSE i \in 1..Len(messages) : messages[i].addr = addr]

\* memcpy(accumulated_text + old_len, chunk, chunk_len)
AppendChunkOverwrite(text, old_len, chunk) == chunk

AppendChunk(text, old_len, chunk) == SubSeq(text, 1, old_len) \o chunk


\* ---------------------------------------------------------------- Init
NoneFinished == [target |-> NULL_MSG, text |-> <<>>, stream |-> AI_INVALID_ID]

NoStream == [state |-> "none", cancelled |-> FALSE, sent |-> <<>>,
             nsent |-> 0, target |-> NULL_MSG]

IdleProducer == [pc |-> "idle", sent |-> 0, update |-> NULL]

\* init_app: the state after construction.
Init ==
  /\ active = FALSE
  /\ stream_id = AI_INVALID_ID
  /\ waiting_for_stream = FALSE
  /\ accumulated_text = NULL
  /\ accumulated_length = 0
  /\ messages = <<>>
  /\ current_streaming = NULL_MSG
  /\ queue_head = <<>>
  /\ queue_tail = NULL
  /\ queue_mutex = MutexFree
  /\ pc = "poll"
  /\ streaming_active = FALSE
  /\ local_stream_id = AI_INVALID_ID
  /\ current = <<>>
  /\ streams = [s \in StreamIds |-> NoStream]
  /\ prod = [p \in Producers |-> IdleProducer]
  /\ session_stream = AI_INVALID_ID
  /\ delivered = <<>>
  /\ finished = NoneFinished
  /\ enq_log = <<>>
  /\ applied_log = <<>>
  /\ batch_start = [msgs |-> <<>>, batch |-> <<>>, enqueued |-> <<>>]
  /\ tool_log = <<>>
  /\ LibIdle
  /\ fn_args = <<>>
  /\ fn_result = <<>>

\* ------------------------------------------------ queue_message_update
\* The whole call as one step: the mutex is taken, the update linked and
\* the mutex released.  Used where the caller is itself inside one step.
queue_message_update(msg, content, is_streaming, tool_executions) ==
  LET update == create_message_update(<<RenderThread, Len(queue_head) + 1>>,
                                      msg, content, is_streaming,
                                      tool_executions)
      q == QueueAppend(queue_head, queue_tail, update)
  IN /\ queue_mutex = MutexFree
     /\ queue_head' = q.head
     /\ queue_tail' = q.tail
     /\ queue_mutex' = queue_mutex

\* --------------------------------------------------- streaming_callback
\* The callback receives the chunk only; the whole body runs under
\* app.streaming.mutex.
\* The branch of streaming_callback for a chunk; realloc_ok is whether
\* realloc returned a block. A failed realloc leaves the old block.
ChunkBranchLosesBuffer(chunk, realloc_ok) ==
  LET old_len == accumulated_length
      new_len == old_len + Len(Deref(chunk))
      old_text == IF accumulated_text = NULL
                    THEN <<>> ELSE Deref(accumulated_text)
      new_text == Ptr(AppendChunk(old_text, old_len, Deref(chunk)))
  IN /\ waiting_for_stream' = FALSE
     /\ IF realloc_ok
          THEN /\ accumulated_text' = new_text
               /\ accumulated_length' = new_len
               /\ IF current_streaming # NULL_MSG
                    THEN queue_message_update(current_streaming, new_text,
                                              TRUE, NULL)
                    ELSE UNCHANGED queueVars
          ELSE /\ accumulated_text' = NULL
               /\ accumulated_length' = 0
               /\ UNCHANGED queueVars
     /\ UNCHANGED <<active, stream_id>>

ChunkBranch(chunk, realloc_ok) ==
  LET old_len == accumulated_length
      new_len == old_len + Len(Deref(chunk))
      old_text == IF accumulated_text = NULL
                    THEN <<>> ELSE Deref(accumulated_text)
      new_text == Ptr(AppendChunk(old_text, old_len, Deref(chunk)))
  IN /\ waiting_for_stream' = FALSE
     /\ IF realloc_ok
          THEN /\ accumulated_text' = new_text
               /\ accumulated_length' = new_len
               /\ IF current_streaming # NULL_MSG
                    THEN queue_message_update(current_streaming, new_text,
                                              TRUE, NULL)
                    ELSE UNCHANGED queueVars
          ELSE UNCHANGED <<accumulated_text, accumulated_length, queueVars>>
     /\ UNCHANGED <<active, stream_id>>

\* Where no allocation failure is considered, realloc returns a block.
streaming_callback(chunk) ==
  IF chunk = NULL
    THEN /\ active' = FALSE
         /\ stream_id' = AI_INVALID_ID
         /\ waiting_for_stream' = FALSE
         /\ IF current_streaming # NULL_MSG /\ accumulated_text # NULL
              THEN queue_message_update(current_streaming, accumulated_text,
                                        FALSE, NULL)
              ELSE UNCHANGED queueVars
         /\ accumulated_text' = NULL
         /\ accumulated_length' = 0
    ELSE ChunkBranch(chunk, TRUE)

\* ------------------------------------------- generation collaborator
RECURSIVE SumSent(_)
SumSent(S) ==
  IF S = {} THEN 0
  ELSE LET s == CHOOSE x \in S : TRUE
       IN streams[s].nsent + SumSent(S \ {s})

ChunksDelivered == SumSent(StreamIds)

\* A stream that has not delivered its terminating call may deliver a
\* chunk, whether or not cancel was called for it (ai.h: "additional chunks
\* may be delivered").
StreamChunk(s) ==
  /\ streams[s].state = "live"
  /\ ChunksDelivered < MaxChunks
  /\ LET c == ChunkText(s, streams[s].nsent + 1)
     IN /\ streaming_callback(Ptr(c))
        /\ streams' = [streams EXCEPT ![s].sent = @ \o c,
                                      ![s].nsent = @ + 1]
        /\ delivered' = delivered \o c
  /\ UNCHANGED <<messages, current_streaming, pc, streaming_active,
                 local_stream_id, current, prod, session_stream, finished,
                 qHist>>

\* The terminating call with a NULL chunk: end of generation, or the
\* acknowledgement of a cancel.
StreamEnd(s) ==
  /\ streams[s].state = "live"
  /\ streaming_callback(NULL)
  /\ streams' = [streams EXCEPT ![s].state = "done"]
  /\ delivered' = <<>>
  /\ finished' = IF streams[s].cancelled
                   THEN finished
                   ELSE [target |-> current_streaming, text |-> delivered,
                         stream |-> s]
  /\ UNCHANGED <<messages, current_streaming, pc, streaming_active,
                 local_stream_id, current, prod, session_stream, qHist>>

\* The terminating call with an error-tagged payload: the generation
\* failed, and the collaborator makes no further call for the stream.
StreamError(s) ==
  /\ streams[s].state = "live"
  /\ ChunksDelivered < MaxChunks
  /\ streaming_callback(Ptr(ErrorText(s)))
  /\ streams' = [streams EXCEPT ![s].state = "failed",
                                ![s].sent = @ \o ErrorText(s),
                                ![s].nsent = @ + 1]
  /\ delivered' = delivered \o ErrorText(s)
  /\ UNCHANGED <<messages, current_streaming, pc, streaming_active,
                 local_stream_id, current, prod, session_stream, finished,
                 qHist>>

\* ---------------------------------------------------- render thread
UserMessages == {i \in 1..Len(messages) : messages[i].type = MSG_USER}

\* handle_input, case TB_KEY_ENTER: a message is sent only when no
\* generation is running.
CanSendAlways(is_active) == TRUE

CanSend(is_active) == ~is_active

\* The reset under the streaming mutex at the end of the cancel branch of
\* handle_input.
CancelResetKeepsBuffer ==
  /\ active' = FALSE
  /\ stream_id' = AI_INVALID_ID
  /\ waiting_for_stream' = FALSE
  /\ UNCHANGED <<accumulated_text, accumulated_length>>

CancelReset ==
  /\ active' = FALSE
  /\ stream_id' = AI_INVALID_ID
  /\ waiting_for_stream' = FALSE
  /\ accumulated_text' = NULL
  /\ accumulated_length' = 0

\* main: tb_peek_event returned no key event in this frame.
PollNone ==
  /\ pc = "poll"
  /\ pc' = "render"
  /\ UNCHANGED <<streamingVars, messages, current_streaming, queueVars,
                 streaming_active, local_stream_id, current, streams, prod,
                 histVars>>

\* handle_input, TB_KEY_ESC: the session flags are read under the mutex;
\* with a generation running the cancel branch is entered.
PollEsc ==
  /\ pc = "poll"
  /\ IF active
       THEN /\ streaming_active' = active
            /\ local_stream_id' = stream_id
            /\ pc' = "cancel1"
       ELSE /\ UNCHANGED <<streaming_active, local_stream_id>>
            /\ pc' = "render"
  /\ UNCHANGED <<streamingVars, messages, current_streaming, queueVars,
                 current, streams, prod, histVars>>

\* handle_input, cancel branch: ai_cancel_stream and the message that
\* reports its result.
Cancel1 ==
  /\ pc = "cancel1"
  /\ IF local_stream_id # AI_INVALID_ID
       THEN IF streams[local_stream_id].state = "live"
              THEN /\ streams' = [streams EXCEPT
                                    ![local_stream_id].cancelled = TRUE]
                   /\ messages' = add_message(messages, MSG_SYSTEM,
                                              TextCancelled)
              ELSE /\ messages' = add_message(messages, MSG_SYSTEM,
                                              TextCancelFailed)
                   /\ UNCHANGED streams
       ELSE UNCHANGED <<streams, messages>>
  /\ pc' = "cancel2"
  /\ UNCHANGED <<streamingVars, current_streaming, queueVars,
                 streaming_active, local_stream_id, current, prod, histVars>>

\* handle_input, cancel branch: the reset of the session and of the
\* in-flight message's flags.
Cancel2 ==
  /\ pc = "cancel2"
  /\ CancelReset
  /\ messages' = [i \in 1..Len(messages) |->
                    IF current_streaming # NULL_MSG
                       /\ messages[i].addr = current_streaming
                      THEN [messages[i] EXCEPT !.is_streaming = FALSE,
                                               !.needs_rerender = TRUE]
                      ELSE messages[i]]
  /\ pc' = "render"
  /\ streaming_active' = FALSE
  /\ local_stream_id' = AI_INVALID_ID
  /\ delivered' = <<>>
  /\ UNCHANGED <<current_streaming, queueVars, current, streams, prod,
                 session_stream, finished, qHist>>

\* handle_input, TB_KEY_ENTER with a non-empty input that is no command:
\* send_message adds the user's message and start_streaming_response runs
\* its first critical section.  With a generation running the key is
\* ignored.
PollEnter ==
  /\ pc = "poll"
  /\ Cardinality(UserMessages) < MaxStarts
  /\ UNCHANGED <<streaming_active, local_stream_id>>
  /\ IF CanSend(active)
       THEN /\ messages' = add_message(messages, MSG_USER, Prompt)
            /\ active' = TRUE
            /\ stream_id' = AI_INVALID_ID
            /\ waiting_for_stream' = TRUE
            /\ accumulated_text' = Ptr(<<>>)
            /\ accumulated_length' = 0
            /\ session_stream' = AI_INVALID_ID
            /\ delivered' = <<>>
            /\ pc' = "start2"
       ELSE /\ pc' = "render"
            /\ UNCHANGED <<streamingVars, messages, session_stream,
                           delivered>>
  /\ UNCHANGED <<current_streaming, queueVars, current, streams, prod,
                 finished, qHist>>

\* start_streaming_response: the assistant's message is added and becomes
\* the in-flight message.
Start2 ==
  /\ pc = "start2"
  /\ LET added == add_message(messages, MSG_ASSISTANT, <<>>)
         msg == LastAddr(added)
     IN /\ current_streaming' = msg
        /\ messages' = [i \in 1..Len(added) |->
                          IF added[i].addr = msg
                            THEN [added[i] EXCEPT !.is_streaming = TRUE,
                                                  !.needs_rerender = TRUE]
                            ELSE added[i]]
  /\ pc' = "start3"
  /\ UNCHANGED <<streamingVars, queueVars, streaming_active,
                 local_stream_id, current, streams, prod, histVars>>

FreeStreamIds == {s \in StreamIds : streams[s].state = "none"}

\* start_streaming_response: ai_generate_response_stream returns a new
\* handle, whose callbacks may run from now on, or AI_INVALID_ID.
Start3 ==
  /\ pc = "start3"
  /\ \/ /\ FreeStreamIds # {}
        /\ LET sid == CHOOSE s \in FreeStreamIds :
                        \A t \in FreeStreamIds : s <= t
           IN /\ streams' = [streams EXCEPT
                               ![sid] = [NoStream EXCEPT
                                           !.state = "live",
                                           !.target = current_streaming]]
              /\ local_stream_id' = sid
              /\ session_stream' = sid
     \/ /\ local_stream_id' = AI_INVALID_ID
        /\ UNCHANGED <<streams, session_stream>>
  /\ pc' = "start4"
  /\ UNCHANGED <<streamingVars, messages, current_streaming, queueVars,
                 streaming_active, current, prod, delivered, finished,
                 qHist>>

\* show_error_message: the message, and the collaborator's last error
\* when it has one.
show_error_message(msgs, message, has_ai_error) ==
  IF has_ai_error
    THEN add_message(add_message(msgs, MSG_SYSTEM, message),
                     MSG_SYSTEM, TextAiError)
    ELSE add_message(msgs, MSG_SYSTEM, message)

\* start_streaming_response, stream_id == AI_INVALID_ID: the flags reset
\* under the streaming mutex.
StartFailedResetKeepsWaiting ==
  /\ active' = FALSE
  /\ UNCHANGED waiting_for_stream

StartFailedReset ==
  /\ active' = FALSE
  /\ waiting_for_stream' = FALSE

\* start_streaming_response: the handle is stored, or the failure is
\* reported.
Start4 ==
  /\ pc = "start4"
  /\ IF local_stream_id = AI_INVALID_ID
       THEN /\ StartFailedReset
            /\ IF current_streaming # NULL_MSG
                 THEN queue_message_update(current_streaming,
                                           Ptr(ErrStartFailed), FALSE, NULL)
                 ELSE UNCHANGED queueVars
            /\ \E has_ai_error \in BOOLEAN :
                 messages' = show_error_message(
                               messages,
                               IF has_ai_error THEN TextGenerationFailed
                                               ELSE TextFailedToGenerate,
                               has_ai_error)
            /\ UNCHANGED <<stream_id, accumulated_text, accumulated_length>>
       ELSE /\ stream_id' = local_stream_id
            /\ UNCHANGED <<active, waiting_for_stream, accumulated_text,
                           accumulated_length, messages, queueVars>>
  /\ pc' = "render"
  /\ local_stream_id' = AI_INVALID_ID
  /\ UNCHANGED <<current_streaming, streaming_active, current, streams,
                 prod, histVars>>

\* render_frame: process_message_updates detaches the pending list and
\* applies it, then every dirty message is re-rendered.
RenderFrame ==
  /\ pc = "render"
  /\ queue_mutex = MutexFree
  /\ messages' = RenderDirty(ApplyAll(messages, queue_head).msgs)
  /\ queue_head' = <<>>
  /\ queue_tail' = NULL
  /\ pc' = "poll"
  /\ UNCHANGED <<streamingVars, current_streaming, queue_mutex,
                 streaming_active, local_stream_id, current, streams, prod,
                 histVars>>

Next ==
  \/ PollNone
  \/ PollEsc
  \/ PollEnter
  \/ Cancel1
  \/ Cancel2
  \/ Start2
  \/ Start3
  \/ Start4
  \/ RenderFrame
  \/ \E s \in StreamIds : StreamChunk(s)
  \/ \E s \in StreamIds : StreamEnd(s)
  \/ \E s \in StreamIds : StreamError(s)

Spec == Init /\ [][Next]_vars


\* =====================================================================
\* QSpec: the update queue under concurrent producers
\* =====================================================================

\* pthread_mutex_lock(&app.update_queue.mutex) returns once no other
\* thread holds the mutex.
MutexNoExclusion(m) == TRUE

MutexAvailable(m) == m = MutexFree

\* The arguments the program's callers pass to queue_message_update:
\* streaming_callback for a chunk and for the end of the stream, and the
\* tool handlers for a tool-execution snapshot.  The text and the snapshot
\* name the update's node, so that no two updates carry the same value.
CallShapes == {"chunk", "final", "tool"}

ShapedUpdate(node, msg, shape) ==
  CASE shape = "chunk" ->
         create_message_update(node, msg, Ptr(<<node>>), TRUE, NULL)
    [] shape = "final" ->
         create_message_update(node, msg, Ptr(<<node>>), FALSE, NULL)
    [] shape = "tool" ->
         create_message_update(node, msg, NULL, TRUE,
                               <<[tool_name |-> node,
                                  parameters |-> Ptr(ToolParameters),
                                  response |-> NULL]>>)

\* The message store after two generations were started and rendered.
QMessages ==
  RenderDirty(
    add_message(add_message(add_message(add_message(<<>>,
      MSG_USER, Prompt), MSG_ASSISTANT, <<>>),
      MSG_USER, Prompt), MSG_ASSISTANT, <<>>))

\* Every caller passes app.current_streaming as the target.
QTargets == {LastAddr(QMessages)}

QInit ==
  /\ active = FALSE
  /\ stream_id = AI_INVALID_ID
  /\ waiting_for_stream = FALSE
  /\ accumulated_text = NULL
  /\ accumulated_length = 0
  /\ messages = QMessages
  /\ current_streaming = LastAddr(QMessages)
  /\ queue_head = <<>>
  /\ queue_tail = NULL
  /\ queue_mutex = MutexFree
  /\ pc = "render"
  /\ streaming_active = FALSE
  /\ local_stream_id = AI_INVALID_ID
  /\ current = <<>>
  /\ streams = [s \in StreamIds |-> NoStream]
  /\ prod = [p \in Producers |-> IdleProducer]
  /\ session_stream = AI_INVALID_ID
  /\ delivered = <<>>
  /\ finished = NoneFinished
  /\ enq_log = <<>>
  /\ applied_log = <<>>
  /\ batch_start = [msgs |-> QMessages, batch |-> <<>>, enqueued |-> <<>>]
  /\ tool_log = <<>>
  /\ LibIdle
  /\ fn_args = <<>>
  /\ fn_result = <<>>

qFrame == <<streamingVars, current_streaming, streaming_active,
            local_stream_id, streams, session_stream, delivered, finished,
            tool_log, fnVars, libVars>>

RECURSIVE SumProd(_)
SumProd(S) ==
  IF S = {} THEN 0
  ELSE LET p == CHOOSE x \in S : TRUE
       IN prod[p].sent + SumProd(S \ {p})

Started == SumProd(Producers)

\* queue_message_update on thread p: create_message_update, then
\* pthread_mutex_lock.
ProdLock(p, msg, shape) ==
  /\ prod[p].pc = "idle"
  /\ Started < MaxUpdates
  /\ MutexAvailable(queue_mutex)
  /\ queue_mutex' = p
  /\ prod' = [prod EXCEPT
                ![p].pc = "locked",
                ![p].sent = @ + 1,
                ![p].update = Ptr(ShapedUpdate(<<p, prod[p].sent + 1>>,
                                               msg, shape))]
  /\ UNCHANGED <<qFrame, messages, queue_head, queue_tail, pc, current,
                 enq_log, applied_log, batch_start>>

\* queue_message_update on thread p: the update is linked at the tail,
\* the condition signalled and the mutex released.
ProdAppendUnlock(p) ==
  /\ prod[p].pc = "locked"
  /\ LET update == Deref(prod[p].update)
         q == QueueAppend(queue_head, queue_tail, update)
     IN /\ queue_head' = q.head
        /\ queue_tail' = q.tail
        /\ enq_log' = Append(enq_log, update.node)
  /\ queue_mutex' = MutexFree
  /\ prod' = [prod EXCEPT ![p].pc = "idle", ![p].update = NULL]
  /\ UNCHANGED <<qFrame, messages, pc, current, applied_log, batch_start>>

\* process_message_updates: pthread_mutex_lock. batch_start.enqueued
\* records the updates whose queue_message_update has returned by now.
DrainLock ==
  /\ pc = "render"
  /\ MutexAvailable(queue_mutex)
  /\ queue_mutex' = RenderThread
  /\ pc' = "drain_locked"
  /\ batch_start' = [batch_start EXCEPT !.enqueued = enq_log]
  /\ UNCHANGED <<qFrame, messages, queue_head, queue_tail, current, prod,
                 enq_log, applied_log>>

\* A drain that detaches the first update only.
DrainReadsHeadOnly ==
  /\ pc = "drain_locked"
  /\ current' = IF queue_head = <<>> THEN <<>> ELSE <<Head(queue_head)>>
  /\ pc' = "drain_read"
  /\ UNCHANGED <<qFrame, messages, queueVars, prod, enq_log, applied_log,
                 batch_start>>

\* process_message_updates: current = app.update_queue.head.
DrainRead ==
  /\ pc = "drain_locked"
  /\ current' = queue_head
  /\ pc' = "drain_read"
  /\ UNCHANGED <<qFrame, messages, queueVars, prod, enq_log, applied_log,
                 batch_start>>

\* process_message_updates: head and tail are set to NULL and the mutex
\* is released.
DrainClear ==
  /\ pc = "drain_read"
  /\ queue_head' = <<>>
  /\ queue_tail' = NULL
  /\ queue_mutex' = MutexFree
  /\ pc' = "drain_apply"
  /\ UNCHANGED <<qFrame, messages, current, prod, enq_log, applied_log,
                 batch_start>>

Nodes(list) == [i \in 1..Len(list) |-> list[i].node]

\* process_message_updates: the loop over the detached list, outside the
\* lock; every update is applied and freed.
DrainApply ==
  /\ pc = "drain_apply"
  /\ LET done == ApplyAll(messages, current)
     IN /\ messages' = done.msgs
        /\ applied_log' = applied_log \o done.log
  /\ batch_start' = [msgs |-> messages, batch |-> current,
                     enqueued |-> batch_start.enqueued]
  /\ current' = <<>>
  /\ pc' = "render"
  /\ UNCHANGED <<qFrame, queueVars, prod, enq_log>>

QNext ==
  \/ \E p \in Producers, msg \in QTargets, shape \in CallShapes :
       ProdLock(p, msg, shape)
  \/ \E p \in Producers : ProdAppendUnlock(p)
  \/ DrainLock
  \/ DrainRead
  \/ DrainClear
  \/ DrainApply

QSpec == QInit /\ [][QNext]_vars


\* =====================================================================
\* ToolSpec: tool handlers called during one generation
\* =====================================================================

\* add_tool_execution_to_list: a record with copies of the three strings
\* is linked at the end of the list (NULL is the empty list).
tool_execution(tool_name, parameters, response) ==
  [tool_name |-> tool_name, parameters |-> parameters, response |-> response]

add_tool_execution_to_list(list, tool_name, parameters, response) ==
  Append(list, tool_execution(tool_name, parameters, response))

\* The handlers: tool_calculate returns early on parameters it cannot
\* parse; mcp_tool_handler reports every outcome.
ToolNames == {"calculate", "mcp"}

\* The parameter payload of the n-th invocation; ok tells whether the
\* handler can parse it.
ToolParams(n, ok) == << <<n, IF ok THEN 1 ELSE 0>> >>

\* The result payload of the n-th invocation.
ToolResponse(n) == << <<n, 2>> >>

IdleTool ==
  [pc |-> "idle", sent |-> 0, update |-> NULL, current_msg |-> NULL_MSG,
   tool_name |-> "", parameters |-> NULL, ok |-> TRUE, call |-> 0]

\* The store while the second generation is in flight.
ToolMessages ==
  [i \in 1..Len(QMessages) |->
     IF i = Len(QMessages)
       THEN [QMessages[i] EXCEPT !.is_streaming = TRUE]
       ELSE QMessages[i]]

ToolInit ==
  /\ active = TRUE
  /\ stream_id = 1
  /\ waiting_for_stream = TRUE
  /\ accumulated_text = Ptr(<<>>)
  /\ accumulated_length = 0
  /\ messages = ToolMessages
  /\ current_streaming = LastAddr(ToolMessages)
  /\ queue_head = <<>>
  /\ queue_tail = NULL
  /\ queue_mutex = MutexFree
  /\ pc = "poll"
  /\ streaming_active = FALSE
  /\ local_stream_id = AI_INVALID_ID
  /\ current = <<>>
  /\ streams = [s \in StreamIds |->
                  IF s = 1
                    THEN [NoStream EXCEPT
                            !.state = "live",
                            !.target = LastAddr(ToolMessages)]
                    ELSE NoStream]
  /\ prod = [p \in Producers |-> IdleTool]
  /\ session_stream = 1
  /\ delivered = <<>>
  /\ finished = NoneFinished
  /\ enq_log = <<>>
  /\ applied_log = <<>>
  /\ batch_start = [msgs |-> ToolMessages, batch |-> <<>>, enqueued |-> <<>>]
  /\ tool_log = <<>>
  /\ LibIdle
  /\ fn_args = <<>>
  /\ fn_result = <<>>

ToolCalls == SumProd(Producers)

toolFrame == <<streamingVars, messages, current_streaming, pc,
               streaming_active, local_stream_id, current, streams,
               session_stream, delivered, finished, enq_log, applied_log,
               batch_start, fnVars, libVars>>

\* A tool handler is entered on thread p: the invocation is recorded as
\* pending (response NULL) against the in-flight message.
ToolCall(p, name, ok) ==
  /\ prod[p].pc = "idle"
  /\ ToolCalls < MaxToolCalls
  /\ LET n == ToolCalls + 1
         parameters == Ptr(ToolParams(n, ok))
         exec_list == add_tool_execution_to_list(NULL, name, parameters,
                                                 NULL)
         current_msg == current_streaming
     IN /\ IF current_msg # NULL_MSG
             THEN /\ queue_message_update(current_msg, NULL, TRUE, exec_list)
                  /\ tool_log' = Append(tool_log,
                                        [call |-> n, thread |-> p,
                                         msg |-> current_msg,
                                         exec |-> exec_list[1]])
             ELSE UNCHANGED <<queueVars, tool_log>>
        /\ prod' = [prod EXCEPT
                      ![p] = [pc |-> "running", sent |-> prod[p].sent + 1,
                              update |-> NULL, current_msg |-> current_msg,
                              tool_name |-> name, parameters |-> parameters,
                              ok |-> ok, call |-> n]]
  /\ UNCHANGED toolFrame

\* tool_calculate leaves before its result update when the parameters are
\* no JSON or hold no expression.
ReturnsEarly(t) == t.tool_name = "calculate" /\ ~t.ok

\* The handler on thread p returns: the result is recorded against the
\* message the handler read at its entry.
ToolReturn(p) ==
  /\ prod[p].pc = "running"
  /\ LET t == prod[p]
         updated_exec == add_tool_execution_to_list(
                           NULL, t.tool_name, t.parameters,
                           Ptr(ToolResponse(t.call)))
     IN IF t.current_msg # NULL_MSG /\ ~ReturnsEarly(t)
          THEN /\ queue_message_update(t.current_msg, NULL, TRUE,
                                       updated_exec)
               /\ tool_log' = Append(tool_log,
                                     [call |-> t.call, thread |-> p,
                                      msg |-> t.current_msg,
                                      exec |-> updated_exec[1]])
          ELSE UNCHANGED <<queueVars, tool_log>>
  /\ prod' = [prod EXCEPT ![p].pc = "idle"]
  /\ UNCHANGED toolFrame

ToolNext ==
  \/ \E p \in Producers, name \in ToolNames, ok \in BOOLEAN :
       ToolCall(p, name, ok)
  \/ \E p \in Producers : ToolReturn(p)
  \/ PollNone
  \/ RenderFrame

ToolSpec == ToolInit /\ [][ToolNext]_vars


\* =====================================================================
\* CallbackSpec: the streaming callback and the tool handlers of one
\* generation together, with the frames of the render thread
\* =====================================================================
\* The stream of the generation in flight is stream 1; its tool handlers
\* run on thread 1.
CallbackNext ==
  \/ \E name \in ToolNames, ok \in BOOLEAN : ToolCall(1, name, ok)
  \/ ToolReturn(1)
  \/ StreamChunk(1)
  \/ StreamEnd(1)
  \/ PollNone
  \/ RenderFrame

CallbackSpec == ToolInit /\ [][CallbackNext]_vars


\* =====================================================================
\* WrapSpec: wrap_text_to_lines on its own
\* =====================================================================

\* The application's variables in a specification of a text function.
appStateVars == <<streamingVars, messages, current_streaming, queueVars, pc,
                  streaming_active, local_stream_id, current, streams, prod,
                  session_stream, delivered, finished, enq_log, applied_log,
                  batch_start, tool_log>>
appVars == <<appStateVars, libVars>>

AppStateIdle ==
  /\ active = FALSE
  /\ stream_id = AI_INVALID_ID
  /\ waiting_for_stream = FALSE
  /\ accumulated_text = NULL
  /\ accumulated_length = 0
  /\ messages = <<>>
  /\ current_streaming = NULL_MSG
  /\ queue_head = <<>>
  /\ queue_tail = NULL
  /\ queue_mutex = MutexFree
  /\ pc = "poll"
  /\ streaming_active = FALSE
  /\ local_stream_id = AI_INVALID_ID
  /\ current = <<>>
  /\ streams = [s \in StreamIds |-> NoStream]
  /\ prod = [p \in Producers |-> IdleProducer]
  /\ session_stream = AI_INVALID_ID
  /\ delivered = <<>>
  /\ finished = NoneFinished
  /\ enq_log = <<>>
  /\ applied_log = <<>>
  /\ batch_start = [msgs |-> <<>>, batch |-> <<>>, enqueued |-> <<>>]
  /\ tool_log = <<>>

\* No message, no stream, no queued update, and the library not in use.
AppIdle == AppStateIdle /\ LibIdle

\* A text is a sequence of codepoints (what tb_utf8_char_to_unicode
\* decodes one at a time); a codepoint is its number.
CharNewline == 10
CharEsc == 27
CharSpace == 32
CharTab == 9
CharLetter == 97

is_word_boundary(codepoint) ==
  codepoint \in {32, 9, 10, 13, 46, 44, 59, 58, 33, 63, 45, 95, 40, 41, 91,
                 93, 123, 125, 34, 39, 47, 92, 124}

\* wrap_text_to_lines and render_chat_line_with_ansi: a width below 5 is
\* raised to 5.
EffectiveWidth(max_width) == IF max_width < 5 THEN 5 ELSE max_width

\* The inner loop of wrap_text_to_lines stops once chars_count codepoints
\* are taken.
WidthReachedLate(chars_count, max_width) == chars_count > max_width

WidthReached(chars_count, max_width) == chars_count >= max_width

\* The inner while loop: scan_ptr runs over the codepoints of one line and
\* last_break follows the last word boundary (0 is NULL).
RECURSIVE ScanLine(_, _, _, _, _)
ScanLine(text, scan_ptr, chars_count, last_break, max_width) ==
  IF /\ scan_ptr <= Len(text)
     /\ text[scan_ptr] # CharNewline
     /\ ~WidthReached(chars_count, max_width)
    THEN ScanLine(text, scan_ptr + 1, chars_count + 1,
                  IF is_word_boundary(text[scan_ptr])
                    THEN scan_ptr + 1 ELSE last_break,
                  max_width)
    ELSE [scan_ptr |-> scan_ptr, chars_count |-> chars_count,
          last_break |-> last_break]

\* while (ptr < text_end && (*ptr == ' ' || *ptr == '\t')) ptr++;
RECURSIVE SkipBlanks(_, _)
SkipBlanks(text, ptr) ==
  IF ptr <= Len(text) /\ text[ptr] \in {CharSpace, CharTab}
    THEN SkipBlanks(text, ptr + 1)
    ELSE ptr

\* The outer while loop of wrap_text_to_lines.
RECURSIVE WrapLoop(_, _, _, _)
WrapLoop(text, ptr, max_width, lines) ==
  IF ptr > Len(text) THEN lines
  ELSE IF text[ptr] = CharNewline
    THEN WrapLoop(text, ptr + 1, max_width, Append(lines, <<>>))
  ELSE
    LET line_start == ptr
        sc == ScanLine(text, ptr, 0, 0, max_width)
        fits == \/ sc.chars_count < max_width
                \/ sc.scan_ptr > Len(text)
                \/ text[sc.scan_ptr] = CharNewline
        at_break == /\ ~fits
                    /\ sc.last_break # 0
                    /\ sc.last_break > line_start
                    /\ (sc.last_break - line_start) >= max_width \div 3
        line_end == IF fits THEN sc.scan_ptr
                    ELSE IF at_break THEN sc.last_break
                    ELSE IF sc.scan_ptr <= line_start THEN line_start + 1
                    ELSE sc.scan_ptr
        next == IF at_break THEN SkipBlanks(text, line_end) ELSE line_end
    IN WrapLoop(text, next, max_width,
                Append(lines, SubSeq(text, line_start, line_end - 1)))

wrap_text_to_lines(text, max_width) ==
  IF max_width <= 0 THEN NULL
  ELSE LET wrapped == WrapLoop(text, 1, EffectiveWidth(max_width), <<>>)
       IN IF wrapped = <<>> THEN << <<>> >> ELSE wrapped

WrapAlphabet == {CharLetter, CharSpace, CharNewline, CharEsc}

WrapTexts == UNION {[1..n -> WrapAlphabet] : n \in 0..MaxTextLen}

WrapInit ==
  /\ AppIdle
  /\ fn_args \in [text : WrapTexts, max_width : 1..MaxWidth]
  /\ fn_result = <<>>

WrapText ==
  /\ fn_result = <<>>
  /\ LET lines == wrap_text_to_lines(fn_args.text, fn_args.max_width)
     IN fn_result' = [lines |-> lines, line_count |-> Len(lines)]
  /\ UNCHANGED <<appVars, fn_args>>

WrapNext == WrapText

WrapSpec == WrapInit /\ [][WrapNext]_vars


\* =====================================================================
\* LexSpec: highlight_code_line over a code line that reaches it in two
\* deliveries (src/third-party/md4c_ansi.c)
\* =====================================================================

CharNul == 0
CharQuote == 34
CharBackslash == 92
CharStar == 42
CharSlash == 47

\* Colour sequences in the rendered output, one element each.
AnsiReset == 1000
AnsiGreen == 1001
AnsiMagenta == 1007
AnsiDim == 1009
AnsiWhite == 1010

\* The lexer fields of MD_ANSI; in_string holds the quote character.
LexerInit == [in_string |-> 0, in_comment |-> 0, string_escape_next |-> 0]

isspace(c) == c \in {9, 10, 11, 12, 13, 32}

is_word_char(c) == c = CharLetter

\* The loop that follows an opening quote: a backslash skips two bytes
\* whatever follows, the quote closes.
RECURSIVE ScanString(_, _, _, _)
ScanString(line, line_len, i, quote) ==
  IF i > line_len THEN [i |-> i, closed |-> FALSE]
  ELSE IF line[i] = CharBackslash THEN ScanString(line, line_len, i + 2, quote)
  ELSE IF line[i] = quote THEN [i |-> i + 1, closed |-> TRUE]
  ELSE ScanString(line, line_len, i + 1, quote)

\* while (i < line_len && is_word_char(line[i])) i++;
RECURSIVE ScanWord(_, _, _)
ScanWord(line, line_len, i) ==
  IF i <= line_len /\ is_word_char(line[i])
    THEN ScanWord(line, line_len, i + 1)
    ELSE i

\* The loop that follows the opening of a block comment: it stops at the
\* closing "*/" or when fewer than two bytes are left.
RECURSIVE ScanComment(_, _, _)
ScanComment(line, line_len, i) ==
  IF i < line_len
    THEN IF line[i] = CharStar /\ line[i + 1] = CharSlash
           THEN [i |-> i + 2, closed |-> TRUE]
           ELSE ScanComment(line, line_len, i + 1)
    ELSE [i |-> i, closed |-> FALSE]

\* get_token_color(TOKEN_COMMENT): ANSI_DIM ANSI_WHITE.
CommentColor == <<AnsiDim, AnsiWhite>>

\* strchr(operators, c), for the operators of the alphabets used here.
IsOperator(c) == c \in {CharStar, CharSlash}

\* The while loop of highlight_code_line; line is the NUL-terminated copy
\* the caller makes, so line[line_len + 1] is CharNul. The branches for
\* the preprocessor and numbers, and those of "#" and "--" comments and of
\* two-byte operators, need characters that the alphabets do not have.
RECURSIVE HighlightFrom(_, _, _, _, _)
HighlightFrom(line, line_len, i, r, out) ==
  IF i > line_len THEN [r |-> r, out |-> out]
  ELSE LET c == line[i] IN
    IF isspace(c)
      THEN HighlightFrom(line, line_len, i + 1, r, Append(out, c))
    ELSE IF r.in_string # 0 /\ r.string_escape_next # 0
      THEN HighlightFrom(line, line_len, i + 1,
                         [r EXCEPT !.string_escape_next = 0], Append(out, c))
    ELSE IF r.in_string # 0
      THEN IF c = CharBackslash
             THEN HighlightFrom(line, line_len, i + 1,
                                [r EXCEPT !.string_escape_next = 1],
                                Append(out, c))
           ELSE IF c = r.in_string
             THEN HighlightFrom(line, line_len, i + 1,
                                [r EXCEPT !.in_string = 0],
                                out \o <<c, AnsiReset>>)
           ELSE HighlightFrom(line, line_len, i + 1, r, Append(out, c))
    ELSE IF r.in_comment = 2
      THEN IF i < line_len /\ c = CharStar /\ line[i + 1] = CharSlash
             THEN HighlightFrom(line, line_len, i + 2,
                                [r EXCEPT !.in_comment = 0],
                                out \o <<CharStar, CharSlash, AnsiReset>>)
             ELSE HighlightFrom(line, line_len, i + 1, r, Append(out, c))
    ELSE IF r.in_comment = 1
      THEN HighlightFrom(line, line_len, i + 1, r, Append(out, c))
    ELSE IF i < line_len /\ c = CharSlash /\ line[i + 1] = CharStar
      THEN LET start == i
               sc == ScanComment(line, line_len, i + 2)
               \* the loop clears in_comment when it finds the end, and
               \* leaves the field as it is otherwise
               scanned == IF sc.closed THEN [r EXCEPT !.in_comment = 0] ELSE r
               text == SubSeq(line, start, sc.i - 1)
           IN IF scanned.in_comment = 0
                THEN HighlightFrom(line, line_len, sc.i, scanned,
                                   out \o CommentColor \o text
                                       \o <<AnsiReset>>)
                ELSE HighlightFrom(line, line_len, sc.i,
                                   [scanned EXCEPT !.in_comment = 2],
                                   out \o CommentColor \o text)
    ELSE IF i < line_len /\ c = CharSlash /\ line[i + 1] = CharSlash
      THEN [r |-> [r EXCEPT !.in_comment = 1],
            out |-> out \o CommentColor \o SubSeq(line, i, line_len)]
    ELSE IF c = CharQuote
      THEN LET start == i
               sc == ScanString(line, line_len, i + 1, c)
           IN HighlightFrom(line, line_len, sc.i,
                            [r EXCEPT !.in_string = IF sc.closed THEN 0 ELSE c,
                                      !.string_escape_next = 0],
                            out \o <<AnsiGreen>>
                                \o SubSeq(line, start, sc.i - 1)
                                \o (IF sc.closed THEN <<AnsiReset>> ELSE <<>>))
    ELSE IF IsOperator(c)
      THEN HighlightFrom(line, line_len, i + 1, r,
                         out \o <<AnsiMagenta, c, AnsiReset>>)
    ELSE IF is_word_char(c)
      THEN LET start == i
               end == ScanWord(line, line_len, i)
           IN HighlightFrom(line, line_len, end, r,
                            out \o SubSeq(line, start, end - 1))
    ELSE HighlightFrom(line, line_len, i + 1, r, Append(out, c))

\* The text callback copies the chunk, terminates it and highlights it.
highlight_code_line(chunk, r, out) ==
  HighlightFrom(Append(chunk, CharNul), Len(chunk), 1, r, out)

\* A row that is full ends with render_code_line_suffix, and the next
\* chunk begins with render_code_line_prefix: the border is drawn in its
\* own colours (the border glyphs are left out of the output), a line
\* comment ends with the row, and the colour of an open string or comment
\* is emitted again.
render_code_line_suffix(r, out) ==
  [r |-> [r EXCEPT !.in_comment = IF @ = 1 THEN 0 ELSE @],
   out |-> Append(out, AnsiReset)]

render_code_line_prefix(r, out) ==
  out \o <<AnsiReset>>
      \o (IF r.in_string # 0 THEN <<AnsiGreen>>
          ELSE IF r.in_comment # 0 THEN CommentColor
          ELSE <<>>)

CodeAlphabet == {CharQuote, CharBackslash, CharLetter, CharSpace}

CodeLines == UNION {[1..n -> CodeAlphabet] : n \in 2..MaxCodeLen}

\* line is the code line, split the length of the first delivery, wrapped
\* whether the row ends between the two deliveries.
LexInit ==
  /\ AppIdle
  /\ \E line \in CodeLines : \E split \in 1..(Len(line) - 1) :
       \E wrapped \in BOOLEAN :
         fn_args = [line |-> line, split |-> split, wrapped |-> wrapped]
  /\ fn_result = <<>>

FirstDelivery ==
  /\ Len(fn_result) = 0
  /\ fn_result' = <<highlight_code_line(SubSeq(fn_args.line, 1, fn_args.split),
                                        LexerInit, <<>>)>>
  /\ UNCHANGED <<appVars, fn_args>>

SecondDelivery ==
  /\ Len(fn_result) = 1
  /\ LET first == fn_result[1]
         ended == render_code_line_suffix(first.r, first.out)
         next == IF fn_args.wrapped
                   THEN [r |-> ended.r,
                         out |-> render_code_line_prefix(ended.r, ended.out)]
                   ELSE first
     IN fn_result' =
          Append(fn_result,
                 highlight_code_line(
                   SubSeq(fn_args.line, fn_args.split + 1, Len(fn_args.line)),
                   next.r, next.out))
  /\ UNCHANGED <<appVars, fn_args>>

LexNext == FirstDelivery \/ SecondDelivery

LexSpec == LexInit /\ [][LexNext]_vars

\* ---------------------------------------------------------------------
\* CommentSpec: the two deliveries of LexSpec over code lines that have
\* comments
\* ---------------------------------------------------------------------
CommentAlphabet == {CharSlash, CharStar, CharLetter, CharSpace}

CommentLines == UNION {[1..n -> CommentAlphabet] : n \in 2..MaxCodeLen}

CommentInit ==
  /\ AppIdle
  /\ \E line \in CommentLines : \E split \in 1..(Len(line) - 1) :
       \E wrapped \in BOOLEAN :
         fn_args = [line |-> line, split |-> split, wrapped |-> wrapped]
  /\ fn_result = <<>>

CommentSpec == CommentInit /\ [][LexNext]_vars



\* =====================================================================
\* AnsiSpec: render_chat_line_with_ansi over one line of bytes
\* =====================================================================

CharBel == 7
CharOpenBracket == 91
CharCloseBracket == 93
CharOne == 49
CharSemicolon == 59
CharColon == 58
CharSmallM == 109

\* tb_width() and tb_height(): the terminal the cells are written to.
TermWidth == 90
TermHeight == 24

\* sizeof(escape_buf)
EscapeBufSize == 128

\* ansi_state_t, as render_chat_line_with_ansi initialises it. A colour
\* is named by where it comes from; the other attributes are booleans.
AnsiStateInit ==
  [fg_color |-> "default_fg", bg_color |-> "default_bg", bold |-> FALSE,
   italic |-> FALSE, underline |-> FALSE, reverse |-> FALSE,
   strikethrough |-> FALSE, dim |-> FALSE]

AnsiStateReset ==
  [fg_color |-> "COLOR_FG", bg_color |-> "COLOR_BG", bold |-> FALSE,
   italic |-> FALSE, underline |-> FALSE, reverse |-> FALSE,
   strikethrough |-> FALSE, dim |-> FALSE]

IsDigit(c) == c >= 48 /\ c <= 57

\* atoi: the decimal value of the leading digits.
RECURSIVE AtoiFrom(_, _, _)
AtoiFrom(token, i, acc) ==
  IF i <= Len(token) /\ IsDigit(token[i])
    THEN AtoiFrom(token, i + 1, acc * 10 + (token[i] - 48))
    ELSE acc

atoi(token) == AtoiFrom(token, 1, 0)

\* strtok_r(params_copy, ";", &saveptr): the non-empty runs between
\* semicolons.
RECURSIVE TokensFrom(_, _, _, _)
TokensFrom(params, i, cur, toks) ==
  IF i > Len(params)
    THEN IF cur = <<>> THEN toks ELSE Append(toks, cur)
  ELSE IF params[i] = CharSemicolon
    THEN TokensFrom(params, i + 1, <<>>,
                    IF cur = <<>> THEN toks ELSE Append(toks, cur))
  ELSE TokensFrom(params, i + 1, Append(cur, params[i]), toks)

\* The switch of parse_sgr_parameters for one parameter. The parameters
\* that select colours (30..49, 90..107) need digits the checked texts do
\* not have.
ApplySgr(param, state) ==
  CASE param = 0 -> AnsiStateReset
    [] param = 1 -> [state EXCEPT !.bold = TRUE]
    [] param = 2 -> [state EXCEPT !.dim = TRUE]
    [] param = 3 -> [state EXCEPT !.italic = TRUE]
    [] param = 4 -> [state EXCEPT !.underline = TRUE]
    [] param = 7 -> [state EXCEPT !.reverse = TRUE]
    [] param = 9 -> [state EXCEPT !.strikethrough = TRUE]
    [] param \in {21, 22} -> [state EXCEPT !.bold = FALSE, !.dim = FALSE]
    [] param = 23 -> [state EXCEPT !.italic = FALSE]
    [] param = 24 -> [state EXCEPT !.underline = FALSE]
    [] param = 27 -> [state EXCEPT !.reverse = FALSE]
    [] param = 29 -> [state EXCEPT !.strikethrough = FALSE]
    [] OTHER -> state

RECURSIVE ApplyTokens(_, _, _)
ApplyTokens(toks, i, state) ==
  IF i > Len(toks) THEN state
  ELSE ApplyTokens(toks, i + 1, ApplySgr(atoi(toks[i]), state))

parse_sgr_parameters(params, state) ==
  IF Len(params) = 0 THEN AnsiStateReset
  ELSE ApplyTokens(TokensFrom(params, 1, <<>>, <<>>), 1, state)

\* ansi_state_to_termbox: the attributes a cell is written with.
ansi_state_to_termbox(state) ==
  [fg |-> state.fg_color, bg |-> state.bg_color,
   bold |-> state.bold, italic |-> state.italic,
   underline |-> state.underline \/ state.strikethrough,
   reverse |-> state.reverse, dim |-> state.dim /\ ~state.bold]

\* *ptr: the text is NUL-terminated.
ByteAt(text, ptr) == IF ptr <= Len(text) THEN text[ptr] ELSE CharNul

\* The locals of render_chat_line_with_ansi on entry; cells are the
\* tb_set_cell calls made so far.
RenderEntry(x, y) ==
  [ptr |-> 1, current_x |-> x, current_y |-> y, line_start_x |-> x,
   visible_chars_on_line |-> 0, last_boundary_visible_chars |-> 0,
   found_word_boundary |-> FALSE, in_escape |-> FALSE, in_osc |-> FALSE,
   escape_buf |-> <<>>, state |-> AnsiStateInit, cells |-> <<>>]

\* while (*ptr && current_y < tb_height())
RenderContinues(text, l) ==
  ByteAt(text, l.ptr) # CharNul /\ l.current_y < TermHeight

\* An escape that ends with a byte that is no final byte.
EscapeAbandoned(l) == [l EXCEPT !.in_escape = FALSE, !.ptr = @ + 1]

\* A visible codepoint: the wrap decision, then the cell.
PutCodepoint(l, codepoint, max_width) ==
  LET is_boundary == is_word_boundary(codepoint)
      b == IF is_boundary /\ l.visible_chars_on_line > 0
             THEN [l EXCEPT !.last_boundary_visible_chars =
                              l.visible_chars_on_line + 1,
                            !.found_word_boundary = TRUE]
             ELSE l
      full == b.visible_chars_on_line >= max_width
      at_boundary == /\ b.found_word_boundary
                     /\ b.last_boundary_visible_chars < b.visible_chars_on_line
                     /\ b.last_boundary_visible_chars >= max_width \div 4
      w == IF ~full THEN b
           ELSE IF at_boundary
             THEN [b EXCEPT !.current_y = @ + 1,
                            !.current_x = b.line_start_x,
                            !.visible_chars_on_line =
                               @ - b.last_boundary_visible_chars]
             ELSE [b EXCEPT !.current_y = @ + 1,
                            !.current_x = b.line_start_x,
                            !.visible_chars_on_line = 0]
      skipped == /\ full /\ at_boundary /\ is_boundary
                 /\ codepoint \in {CharSpace, CharTab}
      c == IF full
             THEN [w EXCEPT !.last_boundary_visible_chars = 0,
                            !.found_word_boundary = FALSE]
             ELSE w
      in_grid == /\ c.current_x >= 0 /\ c.current_x < TermWidth
                 /\ c.current_y >= 0 /\ c.current_y < TermHeight
  IN IF skipped THEN [w EXCEPT !.ptr = @ + 1]
     ELSE [c EXCEPT !.cells =
                      IF in_grid
                        THEN Append(@, [x |-> c.current_x, y |-> c.current_y,
                                        ch |-> codepoint,
                                        attr |-> ansi_state_to_termbox(c.state)])
                        ELSE @,
                    !.current_x = @ + 1,
                    !.visible_chars_on_line = @ + 1,
                    !.ptr = @ + 1]

\* One iteration of the while loop.
RenderStep(text, l, max_width) ==
  LET c == ByteAt(text, l.ptr)
      next == ByteAt(text, l.ptr + 1)
  IN
  IF c = CharEsc /\ next = CharCloseBracket
    THEN [l EXCEPT !.in_osc = TRUE, !.ptr = @ + 2]
  ELSE IF l.in_osc
    THEN IF c = CharEsc /\ next = CharBackslash
           THEN [l EXCEPT !.in_osc = FALSE, !.ptr = @ + 2]
         ELSE IF c = CharBel
           THEN [l EXCEPT !.in_osc = FALSE, !.ptr = @ + 1]
         ELSE [l EXCEPT !.ptr = @ + 1]
  ELSE IF c = CharEsc /\ next = CharOpenBracket
    THEN [l EXCEPT !.in_escape = TRUE, !.escape_buf = <<>>, !.ptr = @ + 2]
  ELSE IF l.in_escape
    THEN IF IsDigit(c) \/ c = CharSemicolon \/ c = CharColon
              \/ (c >= 32 /\ c <= 47)
           THEN [l EXCEPT !.escape_buf =
                            IF Len(@) < EscapeBufSize - 1
                              THEN Append(@, c) ELSE @,
                          !.ptr = @ + 1]
         ELSE IF c >= 64 /\ c <= 126
           THEN [l EXCEPT !.in_escape = FALSE,
                          !.state = IF c = CharSmallM
                                      THEN parse_sgr_parameters(l.escape_buf, @)
                                      ELSE @,
                          !.ptr = @ + 1]
         ELSE EscapeAbandoned(l)
  ELSE IF c = CharEsc
    THEN [l EXCEPT !.ptr = IF next # CharNul THEN @ + 2 ELSE @ + 1]
  ELSE IF c = CharNewline
    THEN [l EXCEPT !.current_y = @ + 1, !.current_x = l.line_start_x,
                   !.visible_chars_on_line = 0, !.ptr = @ + 1,
                   !.last_boundary_visible_chars = 0,
                   !.found_word_boundary = FALSE]
  ELSE PutCodepoint(l, c, max_width)

\* The loop run to its end.
RECURSIVE RenderLoop(_, _, _)
RenderLoop(text, l, max_width) ==
  IF RenderContinues(text, l)
    THEN RenderLoop(text, RenderStep(text, l, max_width), max_width)
    ELSE l

render_chat_line_with_ansi(text, x, y, max_width) ==
  RenderLoop(text, RenderEntry(x, y), EffectiveWidth(max_width))

AnsiAlphabet == {CharEsc, CharOpenBracket, CharCloseBracket, CharOne,
                 CharSmallM, CharBel}

AnsiTexts == UNION {[1..n -> AnsiAlphabet] : n \in 1..MaxAnsiLen}

AnsiInit ==
  /\ AppIdle
  /\ \E text \in AnsiTexts :
       fn_args = [text |-> text, x |-> 0, y |-> 0, max_width |-> MaxWidth]
  /\ fn_result = RenderEntry(fn_args.x, fn_args.y)

RenderByte ==
  /\ RenderContinues(fn_args.text, fn_result)
  /\ fn_result' = RenderStep(fn_args.text, fn_result,
                             EffectiveWidth(fn_args.max_width))
  /\ UNCHANGED <<appVars, fn_args>>

AnsiNext == RenderByte

AnsiSpec == AnsiInit /\ [][AnsiNext]_vars


\* =====================================================================
\* BreakSpec: one line of words given to the two wrappers, the code-block
\* text callback of md4c_ansi.c and render_chat_line_with_ansi
\* =====================================================================

\* The fields of MD_ANSI the code-block branch of text_callback uses, as
\* enter_block_callback(MD_BLOCK_CODE) leaves them. rows are the rows
\* ended so far, row the content of the row being filled, i the index of
\* the loop (from 0, as in the source).
CodeTextEntry ==
  [i |-> 0, line_start |-> TRUE, code_content_width |-> 0, rows |-> <<>>,
   row |-> <<>>]

\* render_code_line_prefix and render_code_line_suffix, for the rows:
\* the prefix begins a row, the suffix pads and ends the one being filled.
CodeRowBegin(c) ==
  [c EXCEPT !.line_start = FALSE, !.code_content_width = 0, !.row = <<>>]

CodeRowEnd(c) == [c EXCEPT !.rows = Append(@, c.row), !.line_start = TRUE]

\* The inner while loop of the code-block branch: chunk_end runs on while
\* the row has room, last_word_boundary follows the boundaries it passes.
RECURSIVE ScanChunk(_, _, _, _, _)
ScanChunk(text, chunk_start, chunk_end, last_word_boundary, line_space_left) ==
  IF /\ chunk_end < Len(text)
     /\ (chunk_end - chunk_start) < line_space_left
     /\ text[chunk_end + 1] # CharNewline
    THEN ScanChunk(text, chunk_start, chunk_end + 1,
                   IF is_word_boundary(text[chunk_end + 1])
                     THEN chunk_end ELSE last_word_boundary,
                   line_space_left)
    ELSE [chunk_end |-> chunk_end, last_word_boundary |-> last_word_boundary]

\* One iteration of while (i < size) in the code-block branch of
\* text_callback, for a row of code_width cells (CODE_CONTENT_WIDTH).
\* highlight_code_line writes every byte of the chunk and counts it.
CodeTextStep(text, entry, code_width) ==
  LET size == Len(text)
      c == IF entry.line_start THEN CodeRowBegin(entry) ELSE entry
  IN IF text[c.i + 1] = CharNewline
       THEN [CodeRowEnd(c) EXCEPT !.i = @ + 1]
       ELSE
    LET chunk_start == c.i
        line_space_left == code_width - c.code_content_width
        sc == ScanChunk(text, chunk_start, chunk_start, chunk_start,
                        line_space_left)
        actual_end ==
          IF sc.chunk_end >= size THEN size
          ELSE IF text[sc.chunk_end + 1] = CharNewline THEN sc.chunk_end
          ELSE IF (sc.chunk_end - chunk_start) >= line_space_left
            THEN IF /\ sc.last_word_boundary > chunk_start
                    /\ (sc.last_word_boundary - chunk_start) < line_space_left
                   THEN sc.last_word_boundary
                   ELSE chunk_start + line_space_left
          ELSE sc.chunk_end
        chunk == SubSeq(text, chunk_start + 1, actual_end)
        h == [c EXCEPT !.row = @ \o chunk,
                       !.code_content_width = @ + Len(chunk)]
        i == IF /\ actual_end < size
                /\ is_word_boundary(text[actual_end + 1])
                /\ text[actual_end + 1] # CharNewline
                /\ h.code_content_width >= code_width
               THEN actual_end + 1 ELSE actual_end
        ended == \/ h.code_content_width >= code_width
                 \/ (i < size /\ text[i + 1] = CharNewline)
    IN [(IF ended THEN CodeRowEnd(h) ELSE h) EXCEPT !.i = i]

BreakAlphabet == {CharLetter, CharSpace}

BreakTexts == UNION {[1..n -> BreakAlphabet] : n \in 1..MaxBreakLen}

\* The same text and the same width for both wrappers.
BreakInit ==
  /\ AppIdle
  /\ \E text \in BreakTexts :
       fn_args = [text |-> text, x |-> 0, y |-> 0,
                  max_width |-> CodeContentWidth]
  /\ fn_result = [line |-> RenderEntry(fn_args.x, fn_args.y),
                  code |-> CodeTextEntry]

\* render_chat_line_with_ansi: one iteration of its loop.
BreakRenderByte ==
  /\ RenderContinues(fn_args.text, fn_result.line)
  /\ fn_result' = [fn_result EXCEPT
                     !.line = RenderStep(fn_args.text, @,
                                         EffectiveWidth(fn_args.max_width))]
  /\ UNCHANGED <<appVars, fn_args>>

\* text_callback in a code block: one iteration of its loop.
BreakCodeText ==
  /\ fn_result.code.i < Len(fn_args.text)
  /\ fn_result' = [fn_result EXCEPT
                     !.code = CodeTextStep(fn_args.text, @,
                                           fn_args.max_width)]
  /\ UNCHANGED <<appVars, fn_args>>

BreakNext == BreakRenderByte \/ BreakCodeText

BreakSpec == BreakInit /\ [][BreakNext]_vars


\* =====================================================================
\* CacheSpec: the line cache of one message, from the ANSI text of its
\* content to the rows draw_chat_messages paints
\* =====================================================================

\* render_markdown_lines, its loop over the ANSI text and the piece after
\* the last newline: every piece between two newlines is given to
\* add_rendered_line as one line. ptr and line_start are indices from 1.
RECURSIVE MarkdownLinesFrom(_, _, _, _)
MarkdownLinesFrom(ansi_content, ptr, line_start, lines) ==
  IF ptr > Len(ansi_content)
    THEN IF line_start < ptr
           THEN Append(lines, SubSeq(ansi_content, line_start, ptr - 1))
           ELSE lines
  ELSE IF ansi_content[ptr] = CharNewline
    THEN MarkdownLinesFrom(ansi_content, ptr + 1, ptr + 1,
                           Append(lines, SubSeq(ansi_content, line_start,
                                                ptr - 1)))
  ELSE MarkdownLinesFrom(ansi_content, ptr + 1, line_start, lines)

\* msg->lines of a message without tool executions that is not streaming.
MarkdownLines(ansi_content) == MarkdownLinesFrom(ansi_content, 1, 1, <<>>)

\* draw_chat_messages: the width it gives to a content line.
ChatContentWidth(chat_width) ==
  IF chat_width - 4 < 10 THEN 10 ELSE chat_width - 4

\* draw_chat_messages: a cached line is one item, and an item is given one
\* row y; render_chat_line_with_ansi paints it from that row on. first_row
\* and last_row are the rows the line was painted on.
DrawContentItem(line, y, chat_width) ==
  LET painted == render_chat_line_with_ansi(line, 2, y,
                                            ChatContentWidth(chat_width))
  IN [first_row |-> y, last_row |-> painted.current_y]

CacheAlphabet == {CharLetter, CharNewline}

CacheContents == UNION {[1..n -> CacheAlphabet] : n \in 1..MaxContentLen}

\* A message whose content was rendered to ANSI text, before its lines
\* are cached.
CacheInit ==
  /\ AppIdle
  /\ \E ansi_content \in CacheContents :
       fn_args = [ansi_content |-> ansi_content,
                  chat_width |-> CacheChatWidth]
  /\ fn_result = [stage |-> "content", lines |-> <<>>, drawn |-> <<>>]

\* render_message_content, the markdown path: render_markdown_lines.
CacheRenderLines ==
  /\ fn_result.stage = "content"
  /\ fn_result' = [fn_result EXCEPT
                     !.stage = "cached",
                     !.lines = MarkdownLines(fn_args.ansi_content)]
  /\ UNCHANGED <<appVars, fn_args>>

\* draw_chat_messages: the next content item of the message, the items
\* on consecutive rows from row 0 on.
CacheDrawItem ==
  /\ fn_result.stage = "cached"
  /\ Len(fn_result.drawn) < Len(fn_result.lines)
  /\ LET k == Len(fn_result.drawn) + 1
     IN fn_result' = [fn_result EXCEPT
                        !.drawn = Append(@, DrawContentItem(
                                              fn_result.lines[k], k - 1,
                                              fn_args.chat_width))]
  /\ UNCHANGED <<appVars, fn_args>>

CacheNext == CacheRenderLines \/ CacheDrawItem

CacheSpec == CacheInit /\ [][CacheNext]_vars


\* =====================================================================
\* ScrollSpec: the scroll position of the chat over the frames of the
\* main loop, with the line counts of the messages changing under it
\* =====================================================================

\* A message of the store as the scroll metrics see it: content_lines is
\* the number of lines its content renders to, line_count is
\* msg->line_count, the lines in its cache.
ChatMessage(content_lines) ==
  [content_lines |-> content_lines, line_count |-> 0,
   is_streaming |-> FALSE, needs_rerender |-> TRUE]

\* init_app: no message, the chat follows its end.
ScrollEntry(chat_height) ==
  [msgs |-> <<>>, current_streaming |-> 0, active |-> FALSE,
   waiting_for_stream |-> FALSE, cursor_blink_frame |-> 0,
   show_cursor |-> TRUE, chat_height |-> chat_height,
   needs_resize |-> FALSE,
   chat |-> [total_lines |-> 0, visible_lines |-> 0, scroll_offset |-> 0,
             auto_scroll |-> TRUE]]

\* render_message_content: the lines of the content, and while the
\* message is streaming in an active session the line of the spinner or,
\* when the cursor is shown, of the cursor.
RenderedLineCount(s, m) ==
  m.content_lines
    + (IF m.is_streaming /\ s.active
            /\ (s.waiting_for_stream \/ s.show_cursor)
         THEN 1 ELSE 0)

RenderMessage(s, m) ==
  [m EXCEPT !.line_count = RenderedLineCount(s, m),
            !.needs_rerender = FALSE]

RECURSIVE SumLineCounts(_, _)
SumLineCounts(msgs, k) ==
  IF k > Len(msgs) THEN 0 ELSE msgs[k].line_count + SumLineCounts(msgs, k + 1)

calculate_chat_metrics(s) ==
  [s EXCEPT !.chat.total_lines = SumLineCounts(s.msgs, 1),
            !.chat.visible_lines =
               IF s.chat_height - 1 < 1 THEN 1 ELSE s.chat_height - 1]

MaxScroll(chat) ==
  IF chat.total_lines - chat.visible_lines < 0
    THEN 0 ELSE chat.total_lines - chat.visible_lines

scroll_chat(s, lines) ==
  IF lines = 0 THEN s
  ELSE LET moved == s.chat.scroll_offset + lines
           offset == IF moved < 0 THEN 0
                     ELSE IF moved > MaxScroll(s.chat)
                       THEN MaxScroll(s.chat) ELSE moved
       IN [s EXCEPT !.chat.scroll_offset = offset,
                    !.chat.auto_scroll = (offset = 0)]

scroll_to_bottom(s) ==
  [s EXCEPT !.chat.scroll_offset = 0, !.chat.auto_scroll = TRUE]

scroll_to_top(s) ==
  [s EXCEPT !.chat.scroll_offset = MaxScroll(s.chat),
            !.chat.auto_scroll = FALSE]

\* add_message: the message is appended unrendered.
ScrollAddMessage(s, content_lines) ==
  LET added == [s EXCEPT !.msgs = Append(@, ChatMessage(content_lines))]
  IN IF added.chat.auto_scroll THEN scroll_to_bottom(added) ELSE added

\* update_animations when 250 ms have passed.
ScrollAnimate(s, tick) ==
  IF ~tick THEN s
  ELSE LET frame == (s.cursor_blink_frame + 1) % CursorBlinkFrames
       IN [s EXCEPT
             !.cursor_blink_frame = frame,
             !.show_cursor = (frame < CursorBlinkFrames \div 2),
             !.msgs = IF s.current_streaming # 0
                        THEN [@ EXCEPT ![s.current_streaming].needs_rerender
                                         = TRUE]
                        ELSE @]

ScrollEvents ==
  {"none", "wheel_up", "wheel_down", "ctrl_up", "ctrl_down", "pgup", "pgdn",
   "alt_home", "alt_end", "resize", "esc", "enter", "help", "clear"}

\* handle_input and, for ENTER, process_command or the start of a
\* generation. /clear is taken before the first generation only: after
\* one, app.current_streaming names a freed message.
ScrollHandleInput(s, ev) ==
  CASE ev = "wheel_up" -> scroll_chat(s, 3)
    [] ev = "wheel_down" -> scroll_chat(s, -3)
    [] ev = "ctrl_up" -> scroll_chat(s, 1)
    [] ev = "ctrl_down" -> scroll_chat(s, -1)
    [] ev = "pgup" -> scroll_chat(s, s.chat.visible_lines \div 2)
    [] ev = "pgdn" -> scroll_chat(s, -(s.chat.visible_lines \div 2))
    [] ev = "alt_home" -> scroll_to_top(s)
    [] ev = "alt_end" -> scroll_to_bottom(s)
    [] ev = "resize" -> [s EXCEPT !.needs_resize = TRUE]
    [] ev = "esc" ->
         IF s.active
           THEN [s EXCEPT
                   !.active = FALSE,
                   !.waiting_for_stream = FALSE,
                   !.msgs = IF s.current_streaming # 0
                              THEN [@ EXCEPT
                                      ![s.current_streaming].is_streaming
                                        = FALSE,
                                      ![s.current_streaming].needs_rerender
                                        = TRUE]
                              ELSE @]
           ELSE s
    [] ev = "enter" ->
         IF ~s.active /\ Len(s.msgs) + 2 <= MaxChatMsgs
           THEN LET added == ScrollAddMessage(ScrollAddMessage(s, 1), 0)
                    msg == Len(added.msgs)
                IN [added EXCEPT !.active = TRUE,
                                 !.waiting_for_stream = TRUE,
                                 !.current_streaming = msg,
                                 !.msgs[msg].is_streaming = TRUE,
                                 !.msgs[msg].needs_rerender = TRUE]
           ELSE s
    [] ev = "help" ->
         IF ~s.active /\ Len(s.msgs) < MaxChatMsgs
           THEN ScrollAddMessage(s, MaxChatLines) ELSE s
    [] ev = "clear" ->
         IF ~s.active /\ s.current_streaming = 0
           THEN ScrollAddMessage(
                  scroll_to_bottom(calculate_chat_metrics(
                    [s EXCEPT !.msgs = <<>>,
                              !.chat.total_lines = 0,
                              !.chat.scroll_offset = 0,
                              !.chat.auto_scroll = TRUE])), 1)
           ELSE s
    [] OTHER -> s

\* What the callbacks of the stream did since the last frame: nothing, a
\* chunk (one more line of content) or the end of the stream.
ScrollCallbacks == {"none", "chunk", "end"}

\* streaming_callback for the session, and process_message_updates for the
\* update it queued.
ScrollApplyUpdate(s, cb) ==
  LET cs == s.current_streaming
  IN IF cb = "chunk" /\ s.active /\ s.msgs[cs].content_lines < MaxChatLines
       THEN LET t == [s EXCEPT !.waiting_for_stream = FALSE,
                               !.msgs[cs].content_lines = @ + 1,
                               !.msgs[cs].is_streaming = TRUE]
            IN [t EXCEPT !.msgs[cs] = RenderMessage(t, @)]
     ELSE IF cb = "end" /\ s.active
       THEN LET t == [s EXCEPT !.active = FALSE,
                               !.waiting_for_stream = FALSE,
                               !.msgs[cs].is_streaming = FALSE]
            IN [t EXCEPT !.msgs[cs] = RenderMessage(t, @)]
     ELSE s

rebuild_all_message_rendering(s) ==
  calculate_chat_metrics(
    [s EXCEPT !.msgs = [k \in 1..Len(s.msgs) |-> RenderMessage(s, s.msgs[k])]])

\* update_dimensions, with the height the terminal has now.
update_dimensions(s, chat_height) ==
  LET rebuilt == rebuild_all_message_rendering(
                   [s EXCEPT !.chat_height = chat_height])
  IN IF rebuilt.chat.auto_scroll
       THEN scroll_to_bottom(rebuilt)
       ELSE [rebuilt EXCEPT !.chat.scroll_offset =
                              IF @ > MaxScroll(rebuilt.chat)
                                THEN MaxScroll(rebuilt.chat) ELSE @]

\* render_frame up to tb_present.
ScrollRenderFrame(s, cb, chat_height) ==
  LET applied == ScrollApplyUpdate(s, cb)
      rendered == [applied EXCEPT
                     !.msgs = [k \in 1..Len(applied.msgs) |->
                                 IF applied.msgs[k].needs_rerender
                                   THEN RenderMessage(applied, applied.msgs[k])
                                   ELSE applied.msgs[k]]]
      measured == calculate_chat_metrics(rendered)
  IN IF measured.needs_resize
       THEN [update_dimensions(measured, chat_height)
               EXCEPT !.needs_resize = FALSE]
       ELSE measured

ChatHeights == 2..MaxChatHeight

ScrollInit ==
  /\ AppIdle
  /\ fn_args = [tick |-> FALSE, ev |-> "none", cb |-> "none"]
  /\ \E chat_height \in ChatHeights :
       fn_result = calculate_chat_metrics(ScrollEntry(chat_height))

\* One iteration of main's loop: update_animations, the event that was
\* polled, render_frame. chat_height is the height of the terminal, which
\* changes with a resize only; a callback runs for a generation only.
ScrollFrame(tick, ev, cb, chat_height) ==
  /\ ev = "resize" \/ chat_height = fn_result.chat_height
  /\ cb = "none" \/ fn_result.active \/ ev = "enter"
  /\ fn_args' = [tick |-> tick, ev |-> ev, cb |-> cb]
  /\ fn_result' = ScrollRenderFrame(
                    ScrollHandleInput(ScrollAnimate(fn_result, tick), ev),
                    cb, chat_height)
  /\ UNCHANGED appVars

ScrollNext ==
  \E tick \in BOOLEAN, ev \in ScrollEvents, cb \in ScrollCallbacks,
     chat_height \in ChatHeights :
    ScrollFrame(tick, ev, cb, chat_height)

ScrollSpec == ScrollInit /\ [][ScrollNext]_vars


\* =====================================================================
\* LockSpec: the two mutexes, app.streaming.mutex and
\* app.update_queue.mutex, at the granularity of their lock and unlock
\* calls, for the render thread and the callback threads
\* =====================================================================
StreamingMutex == "streaming"

QueueMutex == "queue"

LockOf(m) == <<"lock", m>>

UnlockOf(m) == <<"unlock", m>>

\* queue_message_update: the append under the queue's lock.
EnqueueLocks == <<LockOf(QueueMutex), UnlockOf(QueueMutex)>>

\* streaming_callback: the whole body under the session's lock, the
\* enqueue inside it; without an enqueue when realloc fails or there is
\* no message in flight.
StreamingCallbackLocks ==
  <<LockOf(StreamingMutex)>> \o EnqueueLocks \o <<UnlockOf(StreamingMutex)>>

StreamingCallbackNoUpdateLocks ==
  <<LockOf(StreamingMutex), UnlockOf(StreamingMutex)>>

\* A tool handler: the pointer is read under the session's lock, the
\* pending record and the result record are enqueued after it.
ToolHandlerLocks ==
  <<LockOf(StreamingMutex), UnlockOf(StreamingMutex)>>
    \o EnqueueLocks \o EnqueueLocks

\* handle_input, the cancel branch: the flags are read, ai_cancel_stream
\* is called with no lock held, the session is reset.
CancelLocks ==
  <<LockOf(StreamingMutex), UnlockOf(StreamingMutex),
    LockOf(StreamingMutex), UnlockOf(StreamingMutex)>>

\* process_message_updates: the list is detached under the queue's lock
\* and applied after it; render_markdown_lines reads the session flags of
\* a streaming message under the session's lock.
DrainHoldsQueueLocks ==
  <<LockOf(QueueMutex), LockOf(StreamingMutex), UnlockOf(StreamingMutex),
    UnlockOf(QueueMutex)>>

DrainLocks ==
  <<LockOf(QueueMutex), UnlockOf(QueueMutex),
    LockOf(StreamingMutex), UnlockOf(StreamingMutex)>>

\* start_streaming_response: the reset, the message in flight, the
\* handle; when the start fails the error update is enqueued under the
\* session's lock.
StartLocks ==
  <<LockOf(StreamingMutex), UnlockOf(StreamingMutex),
    LockOf(StreamingMutex), UnlockOf(StreamingMutex),
    LockOf(StreamingMutex), UnlockOf(StreamingMutex)>>

StartFailedLocks ==
  <<LockOf(StreamingMutex), UnlockOf(StreamingMutex),
    LockOf(StreamingMutex), UnlockOf(StreamingMutex),
    LockOf(StreamingMutex)>> \o EnqueueLocks
    \o <<UnlockOf(StreamingMutex)>>

LockThreads == {RenderThread} \cup Producers

\* The operations a thread runs, by name.
LockProgram(op) ==
  CASE op = "streaming_callback" -> StreamingCallbackLocks
    [] op = "streaming_callback_no_update" -> StreamingCallbackNoUpdateLocks
    [] op = "tool_handler" -> ToolHandlerLocks
    [] op = "cancel" -> CancelLocks
    [] op = "drain" -> DrainLocks
    [] op = "start" -> StartLocks
    [] op = "start_failed" -> StartFailedLocks
    [] OTHER -> <<>>

OperationsOf(t) ==
  IF t = RenderThread
    THEN {"cancel", "drain", "start", "start_failed"}
    ELSE {"streaming_callback", "streaming_callback_no_update",
          "tool_handler"}

\* The threads that hold a mutex: none or one.
NoOwner == {}

IdleThread == [op |-> "idle", pc |-> 0]

LockInit ==
  /\ AppIdle
  /\ fn_args = <<>>
  /\ fn_result = [owner |-> [m \in {StreamingMutex, QueueMutex} |-> NoOwner],
                  th |-> [t \in LockThreads |-> IdleThread]]

\* The call thread t is at.
NextCall(t) == LockProgram(fn_result.th[t].op)[fn_result.th[t].pc]

IsBusy(t) == fn_result.th[t].op # "idle"

\* Thread t enters an operation.
ThreadBegin(t, op) ==
  /\ ~IsBusy(t)
  /\ fn_result' = [fn_result EXCEPT !.th[t] = [op |-> op, pc |-> 1]]
  /\ UNCHANGED <<appVars, fn_args>>

\* pthread_mutex_lock returns on thread t: the mutex was free.
ThreadLock(t) ==
  /\ IsBusy(t)
  /\ NextCall(t)[1] = "lock"
  /\ fn_result.owner[NextCall(t)[2]] = NoOwner
  /\ fn_result' = [fn_result EXCEPT !.owner[NextCall(t)[2]] = {t},
                                    !.th[t].pc = @ + 1]
  /\ UNCHANGED <<appVars, fn_args>>

\* pthread_mutex_unlock on thread t; the operation ends after its last
\* unlock.
ThreadUnlock(t) ==
  /\ IsBusy(t)
  /\ NextCall(t)[1] = "unlock"
  /\ fn_result' =
       [fn_result EXCEPT
          !.owner[NextCall(t)[2]] = NoOwner,
          !.th[t] = IF fn_result.th[t].pc
                         = Len(LockProgram(fn_result.th[t].op))
                      THEN IdleThread
                      ELSE [@ EXCEPT !.pc = @ + 1]]
  /\ UNCHANGED <<appVars, fn_args>>

LockNext ==
  \E t \in LockThreads :
    \/ \E op \in OperationsOf(t) : ThreadBegin(t, op)
    \/ ThreadLock(t)
    \/ ThreadUnlock(t)

LockSpec == LockInit /\ [][LockNext]_vars

\* The scheduler runs every thread: a thread that is about to unlock does
\* so, and a thread in pthread_mutex_lock gets a mutex that is free again
\* and again.
LockFairSpec ==
  /\ LockSpec
  /\ \A t \in LockThreads :
       WF_vars(ThreadUnlock(t)) /\ SF_vars(ThreadLock(t))


\* =====================================================================
\* MdSpec: markdown rendering of a message across frames, with
\* process_markdown_to_ansi able to fail
\* =====================================================================

\* process_markdown_to_ansi: the ANSI text of the content, or NULL when
\* the output buffer cannot be allocated or md_ansi reports a failure.
process_markdown_to_ansi(content, ok) ==
  IF content = NULL \/ ~ok THEN NULL ELSE Ptr([markdown |-> Deref(content)])

\* msg->lines after render_markdown_lines, and after the plain rendering
\* of render_content_lines; text is the content the lines were made from.
render_markdown_lines(ansi_content) ==
  [mode |-> "markdown", text |-> Deref(ansi_content).markdown]

render_content_lines(content) ==
  [mode |-> "plain", text |-> IF content = NULL THEN <<>> ELSE Deref(content)]

\* The body of process_message_updates' loop for one update on one
\* message, with the rendered lines of the message: m is the message, l
\* its lines, ok whether process_markdown_to_ansi succeeds.
ApplyAndRender(m, l, u, ok) ==
  IF u.target_message # NULL_MSG /\ u.target_message = m.addr
    THEN LET applied == ApplyToMessage(m, u)
             rendered_markdown == process_markdown_to_ansi(u.new_content, ok)
         IN IF u.process_markdown /\ u.new_content # NULL
              THEN IF rendered_markdown # NULL
                     THEN [msg |-> [applied EXCEPT !.needs_rerender = FALSE],
                           lines |-> render_markdown_lines(rendered_markdown)]
                     ELSE [msg |-> [applied EXCEPT !.needs_rerender = TRUE],
                           lines |-> l]
              ELSE [msg |-> [applied EXCEPT !.needs_rerender = TRUE],
                    lines |-> l]
    ELSE [msg |-> m, lines |-> l]

\* The markdown failures of process_message_updates that no later update
\* of the batch has made good: the message and the content it was given.
FailedAfter(failed, u, ok) ==
  IF u.target_message = NULL_MSG \/ ~u.process_markdown \/ u.new_content = NULL
    THEN failed
    ELSE {f \in failed : f.addr # u.target_message}
           \cup (IF ok THEN {}
                 ELSE {[addr |-> u.target_message, content |-> u.new_content]})

\* The while loop of process_message_updates; oks[i] is the outcome of
\* process_markdown_to_ansi for the i-th update of the list.
RECURSIVE ProcessAndRender(_, _, _, _)
ProcessAndRender(st, list, oks, i) ==
  IF i > Len(list) THEN st
  ELSE LET u == list[i]
           done == [k \in 1..Len(st.msgs) |->
                      ApplyAndRender(st.msgs[k], st.lines[k], u, oks[i])]
       IN ProcessAndRender(
            [msgs |-> [k \in 1..Len(st.msgs) |-> done[k].msg],
             lines |-> [k \in 1..Len(st.msgs) |-> done[k].lines],
             failed |-> FailedAfter(st.failed, u, oks[i])],
            list, oks, i + 1)

\* render_message_content: markdown is tried; when it fails, or there is
\* no content, the content is rendered as plain lines. The flag is
\* cleared on both paths.
RenderContentKeepsDirty(m, l, ok) ==
  LET has_content == m.content # NULL /\ Len(Deref(m.content)) > 0
      rendered_markdown == process_markdown_to_ansi(m.content, ok)
  IN IF has_content /\ rendered_markdown # NULL
       THEN [msg |-> [m EXCEPT !.needs_rerender = FALSE],
             lines |-> render_markdown_lines(rendered_markdown)]
       ELSE [msg |-> m, lines |-> l]

render_message_content(m, l, ok) ==
  LET has_content == m.content # NULL /\ Len(Deref(m.content)) > 0
      rendered_markdown == process_markdown_to_ansi(m.content, ok)
  IN IF has_content /\ rendered_markdown # NULL
       THEN [msg |-> [m EXCEPT !.needs_rerender = FALSE],
             lines |-> render_markdown_lines(rendered_markdown)]
       ELSE [msg |-> [m EXCEPT !.needs_rerender = FALSE],
             lines |-> render_content_lines(m.content)]

MdContents == {NULL} \cup {Ptr(ChunkText(1, k)) : k \in 1..2}

\* Every message of the store is rendered, the last one is the message
\* of the generation that is running.
MdInit ==
  /\ active = TRUE
  /\ stream_id = 1
  /\ waiting_for_stream = FALSE
  /\ accumulated_text = Ptr(<<>>)
  /\ accumulated_length = 0
  /\ messages = ToolMessages
  /\ current_streaming = LastAddr(ToolMessages)
  /\ queue_head = <<>>
  /\ queue_tail = NULL
  /\ queue_mutex = MutexFree
  /\ pc = "poll"
  /\ streaming_active = FALSE
  /\ local_stream_id = AI_INVALID_ID
  /\ current = <<>>
  /\ streams = [s \in StreamIds |-> NoStream]
  /\ prod = [p \in Producers |-> IdleProducer]
  /\ session_stream = 1
  /\ delivered = <<>>
  /\ finished = NoneFinished
  /\ enq_log = <<>>
  /\ applied_log = <<>>
  /\ batch_start = [msgs |-> ToolMessages, batch |-> <<>>, enqueued |-> <<>>]
  /\ tool_log = <<>>
  /\ LibIdle
  /\ fn_args = [failed |-> {}]
  /\ fn_result = [k \in 1..Len(ToolMessages) |->
                    render_message_content(ToolMessages[k], <<>>, TRUE).lines]

mdFrame == <<streamingVars, current_streaming, queue_mutex, streaming_active,
             local_stream_id, current, streams, prod, session_stream,
             delivered, finished, applied_log, batch_start, tool_log,
             libVars>>

\* A producer thread: queue_message_update for the streaming message.
MdEnqueue(content, is_streaming) ==
  /\ Len(enq_log) < MaxUpdates
  /\ queue_message_update(current_streaming, content, is_streaming, NULL)
  /\ enq_log' = Append(enq_log, <<RenderThread, Len(queue_head) + 1>>)
  /\ UNCHANGED <<streamingVars, messages, current_streaming, pc,
                 streaming_active, local_stream_id, current, streams, prod,
                 session_stream, delivered, finished, applied_log,
                 batch_start, tool_log, fnVars, libVars>>

\* main: update_animations, then the poll. Every 250 ms the animation
\* flags the streaming message.
MdPoll(tick) ==
  /\ pc = "poll"
  /\ pc' = "render"
  /\ messages' = IF tick /\ current_streaming # NULL_MSG
                   THEN [k \in 1..Len(messages) |->
                           IF messages[k].addr = current_streaming
                             THEN [messages[k] EXCEPT !.needs_rerender = TRUE]
                             ELSE messages[k]]
                   ELSE messages
  /\ UNCHANGED <<mdFrame, queue_head, queue_tail, enq_log, fnVars>>

\* render_frame: process_message_updates.
MdProcessUpdates ==
  /\ pc = "render"
  /\ queue_mutex = MutexFree
  /\ \E oks \in [1..Len(queue_head) -> BOOLEAN] :
       LET done == ProcessAndRender([msgs |-> messages, lines |-> fn_result,
                                     failed |-> {}],
                                    queue_head, oks, 1)
       IN /\ messages' = done.msgs
          /\ fn_result' = done.lines
          /\ fn_args' = [failed |-> done.failed]
  /\ queue_head' = <<>>
  /\ queue_tail' = NULL
  /\ pc' = "dirty"
  /\ UNCHANGED <<mdFrame, enq_log>>

\* render_frame: the loop over the messages that are flagged.
MdRenderDirty ==
  /\ pc = "dirty"
  /\ \E oks \in [1..Len(messages) -> BOOLEAN] :
       LET done == [k \in 1..Len(messages) |->
                      IF messages[k].needs_rerender
                        THEN render_message_content(messages[k],
                                                    fn_result[k], oks[k])
                        ELSE [msg |-> messages[k], lines |-> fn_result[k]]]
       IN /\ messages' = [k \in 1..Len(messages) |-> done[k].msg]
          /\ fn_result' = [k \in 1..Len(messages) |-> done[k].lines]
  /\ pc' = "poll"
  /\ UNCHANGED <<mdFrame, queue_head, queue_tail, enq_log, fn_args>>

MdNext ==
  \/ \E content \in MdContents, is_streaming \in BOOLEAN :
       MdEnqueue(content, is_streaming)
  \/ \E tick \in BOOLEAN : MdPoll(tick)
  \/ MdProcessUpdates
  \/ MdRenderDirty

MdSpec == MdInit /\ [][MdNext]_vars



\* =====================================================================
\* AllocSpec: one generation whose chunks may find realloc failing
\* =====================================================================

\* A generation is running for the last message, no chunk has arrived.
AllocInit ==
  /\ active = TRUE
  /\ stream_id = 1
  /\ waiting_for_stream = TRUE
  /\ accumulated_text = Ptr(<<>>)
  /\ accumulated_length = 0
  /\ messages = ToolMessages
  /\ current_streaming = LastAddr(ToolMessages)
  /\ queue_head = <<>>
  /\ queue_tail = NULL
  /\ queue_mutex = MutexFree
  /\ pc = "poll"
  /\ streaming_active = FALSE
  /\ local_stream_id = AI_INVALID_ID
  /\ current = <<>>
  /\ streams = [s \in StreamIds |->
                  IF s = 1
                    THEN [NoStream EXCEPT
                            !.state = "live",
                            !.target = LastAddr(ToolMessages)]
                    ELSE NoStream]
  /\ prod = [p \in Producers |-> IdleProducer]
  /\ session_stream = 1
  /\ delivered = <<>>
  /\ finished = NoneFinished
  /\ enq_log = <<>>
  /\ applied_log = <<>>
  /\ batch_start = [msgs |-> ToolMessages, batch |-> <<>>, enqueued |-> <<>>]
  /\ tool_log = <<>>
  /\ LibIdle
  /\ fn_args = <<>>
  /\ fn_result = <<>>

\* streaming_callback for the next chunk of stream s; fn_args records,
\* chunk by chunk, whether realloc returned a block. The stream delivers
\* up to MaxChunks + 1 chunks, so that a failure has chunks on both sides.
AllocChunk(s, realloc_ok) ==
  /\ streams[s].state = "live"
  /\ ChunksDelivered <= MaxChunks
  /\ LET c == ChunkText(s, streams[s].nsent + 1)
     IN /\ ChunkBranch(Ptr(c), realloc_ok)
        /\ streams' = [streams EXCEPT ![s].sent = @ \o c,
                                      ![s].nsent = @ + 1]
        /\ delivered' = IF realloc_ok THEN delivered \o c ELSE delivered
  /\ fn_args' = Append(fn_args, realloc_ok)
  /\ UNCHANGED <<messages, current_streaming, pc, streaming_active,
                 local_stream_id, current, prod, session_stream, finished,
                 enq_log, applied_log, batch_start, tool_log, fn_result,
                 libVars>>

AllocNext ==
  \/ \E realloc_ok \in BOOLEAN : AllocChunk(1, realloc_ok)
  \/ StreamEnd(1)
  \/ PollNone
  \/ RenderFrame

AllocSpec == AllocInit /\ [][AllocNext]_vars

\* ---------------------------------------------------------------------
\* The commands that destroy the messages (/clear, /new), with a
\* generation running at the start. A block that free_messages released
\* is still named by whatever pointed to it; a later write through such a
\* pointer lands in the message that got the block, if the allocator gave
\* it to one, and otherwise in released memory.
\* ---------------------------------------------------------------------
StoreAddrs(msgs) == {msgs[i].addr : i \in 1..Len(msgs)}

\* free_messages: every message is freed and the store is empty.
free_messages == <<>>

\* The message process_command adds after the command ran: "◆ Chat
\* history cleared successfully", "◆ New session started successfully",
\* or the report of the failure.
CommandReport(command, ok) ==
  IF ~ok THEN << <<0, 11>> >>
  ELSE IF command = "/clear" THEN << <<0, 9>> >> ELSE << <<0, 10>> >>

\* The blocks malloc may return for the message added after
\* free_messages: one of those just released, or another one.
BlocksAfterFree(msgs) == StoreAddrs(msgs) \cup {NewAddr(msgs)}

ClearInit == AllocInit

\* handle_input, TB_KEY_ENTER with "/clear" in the input and no generation
\* running: process_command. ok is the result of ai_clear_session_history.
ProcessCommandClear(block, ok) ==
  /\ pc = "poll"
  /\ CanSend(active)
  /\ block \in BlocksAfterFree(messages)
  /\ ok \/ Len(messages) < MaxStore
  /\ messages' =
       IF ok
         THEN [add_message(free_messages, MSG_SYSTEM,
                           CommandReport("/clear", TRUE))
                 EXCEPT ![1].addr = block]
         ELSE add_message(messages, MSG_SYSTEM, CommandReport("/clear", FALSE))
  /\ pc' = "render"
  /\ UNCHANGED <<streamingVars, current_streaming, queueVars,
                 streaming_active, local_stream_id, current, streams, prod,
                 histVars>>

\* handle_input, TB_KEY_ENTER with "/new": free_messages, then
\* cleanup_ai_session, which destroys the session and so cancels its
\* streams, then init_ai_session, whose result is ok.
ProcessCommandNew(block, ok) ==
  /\ pc = "poll"
  /\ CanSend(active)
  /\ block \in BlocksAfterFree(messages)
  /\ messages' = [add_message(free_messages, MSG_SYSTEM,
                              CommandReport("/new", ok))
                    EXCEPT ![1].addr = block]
  /\ streams' = [s \in StreamIds |->
                   IF streams[s].state = "live"
                     THEN [streams[s] EXCEPT !.cancelled = TRUE]
                     ELSE streams[s]]
  /\ pc' = "render"
  /\ UNCHANGED <<streamingVars, current_streaming, queueVars,
                 streaming_active, local_stream_id, current, prod, histVars>>

\* update_animations when the 250 ms have passed: the in-flight message
\* is flagged for re-rendering.
AnimationTick ==
  /\ pc = "poll"
  /\ current_streaming # NULL_MSG
  /\ messages' = [i \in 1..Len(messages) |->
                    IF messages[i].addr = current_streaming
                      THEN [messages[i] EXCEPT !.needs_rerender = TRUE]
                      ELSE messages[i]]
  /\ UNCHANGED <<streamingVars, current_streaming, queueVars, pc,
                 streaming_active, local_stream_id, current, streams, prod,
                 histVars>>

\* The render thread is about to write through a pointer to a released
\* block that no message has: in update_animations through
\* app.current_streaming, in process_message_updates through an update's
\* target_message.
WritesReleasedBlock ==
  \/ /\ pc = "poll"
     /\ current_streaming \notin StoreAddrs(messages) \cup {NULL_MSG}
  \/ /\ pc = "render"
     /\ \E k \in 1..Len(queue_head) :
          queue_head[k].target_message
            \notin StoreAddrs(messages) \cup {NULL_MSG}

\* Such a write may end the process; when it does not, the frame goes on
\* as AnimationTick and RenderFrame describe.
ReleasedBlockFault ==
  /\ WritesReleasedBlock
  /\ pc' = "aborted"
  /\ UNCHANGED <<streamingVars, messages, current_streaming, queueVars,
                 streaming_active, local_stream_id, current, streams, prod,
                 histVars>>

ClearNext ==
  \/ PollNone
  \/ PollEsc
  \/ Cancel1
  \/ Cancel2
  \/ RenderFrame
  \/ StreamChunk(1)
  \/ StreamEnd(1)
  \/ AnimationTick
  \/ \E block \in BlocksAfterFree(messages), ok \in BOOLEAN :
       ProcessCommandClear(block, ok)
  \/ \E block \in BlocksAfterFree(messages), ok \in BOOLEAN :
       ProcessCommandNew(block, ok)
  \/ ReleasedBlockFault

ClearSpec == ClearInit /\ [][ClearNext]_vars


\* =====================================================================
\* TableSpec: a table block delivered to the renderer cell by cell and
\* drawn by render_complete_table when the block closes
\* =====================================================================

\* The box-drawing codepoints and the colour of the borders.
BOX_H == 9472
BOX_V == 9474
BOX_TL == 9484
BOX_TR == 9488
BOX_BL == 9492
BOX_BR == 9496
BOX_T_RIGHT == 9500
BOX_T_LEFT == 9508
BOX_T_DOWN == 9516
BOX_T_UP == 9524
BOX_CROSS == 9532
AnsiBrightBlack == 1002

\* A cell's content is a sequence of bytes; a character outside ASCII is
\* a lead byte and its continuation bytes (here U+00E9, two bytes).
Utf8Lead == 195
Utf8Cont == 169

\* calculate_text_width: every byte outside an "ESC [ ... m" sequence
\* counts one.
RECURSIVE TextWidthFrom(_, _, _)
TextWidthFrom(text, i, width) ==
  IF i > Len(text) THEN width
  ELSE IF text[i] = CharEsc
    THEN IF i + 1 <= Len(text) /\ text[i + 1] = CharOpenBracket
           THEN LET RECURSIVE ToM(_)
                    ToM(k) == IF k <= Len(text) /\ text[k] # CharSmallM
                                THEN ToM(k + 1) ELSE k
                    k == ToM(i + 2)
                IN TextWidthFrom(text, IF k <= Len(text) THEN k + 1 ELSE k,
                                 width)
           ELSE TextWidthFrom(text, i + 1, width)
  ELSE TextWidthFrom(text, i + 1, width + 1)

calculate_text_width(text) == TextWidthFrom(text, 1, 0)

Repeat(x, n) == [k \in 1..n |-> x]

RECURSIVE Flatten(_)
Flatten(seqs) == IF seqs = <<>> THEN <<>> ELSE Head(seqs) \o Flatten(Tail(seqs))

\* The first loop of render_complete_table: the width of a column is
\* raised to the width of each of its cells.
RECURSIVE ColumnWidthsFrom(_, _, _)
ColumnWidthsFrom(r, i, cols) ==
  IF i > r.table_row_count THEN cols
  ELSE ColumnWidthsFrom(r, i + 1,
         [j \in 1..MaxCols |->
            IF j <= r.table_rows[i].cell_count
                 /\ calculate_text_width(r.table_rows[i].cells[j].content)
                      > cols[j]
              THEN calculate_text_width(r.table_rows[i].cells[j].content)
              ELSE cols[j]])

ColumnWidths(r) == ColumnWidthsFrom(r, 1, r.table_cols)

RECURSIVE ColumnCountFrom(_, _, _)
ColumnCountFrom(r, i, count) ==
  IF i > r.table_row_count THEN count
  ELSE ColumnCountFrom(r, i + 1,
         IF r.table_rows[i].cell_count > count
           THEN r.table_rows[i].cell_count ELSE count)

\* A border line: the corner, BOX_H over each column's width plus the two
\* padding blanks, the joint between columns, the corner.
BorderLine(left, joint, right, cols, count) ==
  <<AnsiBrightBlack, left>>
    \o Flatten([j \in 1..count |->
                  Repeat(BOX_H, cols[j] + 2)
                    \o (IF j < count THEN <<joint>> ELSE <<>>)])
    \o <<right, AnsiReset>>

\* One cell of a row, padded to the column's width by its alignment.
CellText(cell, cell_width) ==
  LET content_width == calculate_text_width(cell.content)
      padding == IF cell_width - content_width < 0
                   THEN 0 ELSE cell_width - content_width
      left_pad == CASE cell.align = "right" -> padding
                    [] cell.align = "center" -> padding \div 2
                    [] OTHER -> 0
      right_pad == CASE cell.align = "right" -> 0
                     [] cell.align = "center" -> padding - (padding \div 2)
                     [] OTHER -> padding
  IN Repeat(CharSpace, left_pad) \o cell.content \o Repeat(CharSpace, right_pad)

RowLine(row, cols, count) ==
  <<AnsiBrightBlack, BOX_V, AnsiReset>>
    \o Flatten([j \in 1..count |->
                  <<CharSpace>>
                    \o (IF j <= row.cell_count
                          THEN CellText(row.cells[j], cols[j])
                          ELSE Repeat(CharSpace, cols[j]))
                    \o <<CharSpace, AnsiBrightBlack, BOX_V, AnsiReset>>])

\* render_complete_table: the lines drawn, top border first.
render_complete_table(r) ==
  IF r.table_row_count = 0 THEN r
  ELSE LET cols == ColumnWidths(r)
           count == ColumnCountFrom(r, 1, r.table_col_count)
           body == Flatten([i \in 1..r.table_row_count |->
                     <<RowLine(r.table_rows[i], cols, count)>>
                       \o (IF i = r.table_header_rows
                                /\ i < r.table_row_count
                             THEN <<BorderLine(BOX_T_RIGHT, BOX_CROSS,
                                               BOX_T_LEFT, cols, count)>>
                             ELSE <<>>)])
       IN [r EXCEPT
             !.table_cols = cols,
             !.table_col_count = count,
             !.out = <<BorderLine(BOX_TL, BOX_T_DOWN, BOX_TR, cols, count)>>
                       \o body
                       \o <<BorderLine(BOX_BL, BOX_T_UP, BOX_BR, cols, count)>>]

\* enter_block_callback(MD_BLOCK_TABLE) followed by MD_BLOCK_THEAD.
TableEntered ==
  [table_column |-> 0, table_col_count |-> 0, table_row_count |-> 0,
   in_table |-> TRUE, in_table_header |-> TRUE, table_header_rows |-> 0,
   table_cols |-> [j \in 1..MaxCols |-> 0], table_rows |-> <<>>,
   cells |-> <<>>, out |-> <<>>]

CellChars == {<<CharLetter>>, <<Utf8Lead, Utf8Cont>>}

CellContents ==
  {Flatten(cs) : cs \in UNION {[1..n -> CellChars] : n \in 0..MaxCellChars}}

\* The table of the specification's example: a, bbbb / cc, d.
ExampleTable ==
  << <<Repeat(CharLetter, 1), Repeat(98, 4)>>,
     <<Repeat(99, 2), Repeat(100, 1)>> >>

\* The parser gives every row of a table as many cells as the header has.
Tables ==
  {ExampleTable} \cup
  UNION {[1..rows -> [1..ncols -> CellContents]] :
           rows \in 1..MaxRows, ncols \in 1..MaxCols}

TableInit ==
  /\ AppIdle
  /\ fn_args \in Tables
  /\ fn_result = TableEntered

\* MD_BLOCK_TH / MD_BLOCK_TD: enter, the text of the cell, leave.
TableCell ==
  /\ fn_result.in_table
  /\ fn_result.table_row_count < Len(fn_args)
  /\ fn_result.table_column < Len(fn_args[fn_result.table_row_count + 1])
  /\ LET content == fn_args[fn_result.table_row_count + 1]
                           [fn_result.table_column + 1]
     IN fn_result' = [fn_result EXCEPT
                        !.cells = Append(@, [content |-> content,
                                             length |-> Len(content),
                                             align |-> "default"]),
                        !.table_column = @ + 1]
  /\ UNCHANGED <<appVars, fn_args>>

\* MD_BLOCK_TR: leave, then the leave of MD_BLOCK_THEAD after the header
\* row, and the enter of the next row.
TableRowEnd ==
  /\ fn_result.in_table
  /\ fn_result.table_row_count < Len(fn_args)
  /\ fn_result.table_column = Len(fn_args[fn_result.table_row_count + 1])
  /\ LET count == fn_result.table_row_count + 1
         header == fn_result.in_table_header
     IN fn_result' = [fn_result EXCEPT
                        !.table_rows = Append(@, [cells |-> fn_result.cells,
                                                  cell_count |->
                                                    fn_result.table_column]),
                        !.table_row_count = count,
                        !.table_header_rows = IF header THEN count ELSE @,
                        !.in_table_header = FALSE,
                        !.cells = <<>>,
                        !.table_column = 0]
  /\ UNCHANGED <<appVars, fn_args>>

\* leave_block_callback(MD_BLOCK_TABLE).
TableClose ==
  /\ fn_result.in_table
  /\ fn_result.table_row_count = Len(fn_args)
  /\ fn_result' = [render_complete_table(fn_result) EXCEPT !.in_table = FALSE]
  /\ UNCHANGED <<appVars, fn_args>>

TableNext == TableCell \/ TableRowEnd \/ TableClose

TableSpec == TableInit /\ [][TableNext]_vars

\* ---------------------------------------------------------------------
\* TableBufSpec: the indices with which the table buffers are read and
\* written while a table of any size is buffered and drawn. The buffers
\* hold TableRowsCap rows of TableCellsCap cells; fn_args is the size of
\* the table the parser delivers, fn_result the renderer's counters, the
\* cell_count of each stored row, and every index used so far.
\* ---------------------------------------------------------------------
TableShapes ==
  [rows : 1..(TableRowsCap + 1), cols : 1..(TableCellsCap + 1)]

\* enter_block_callback(MD_BLOCK_TABLE).
TableBufEntered ==
  [table_row |-> 0, table_column |-> 0, table_col_count |-> 0,
   table_row_count |-> 0, in_table |-> TRUE, cell_counts |-> <<>>,
   used |-> {}, drawn |-> "no"]

Use(buffer, index) == [buffer |-> buffer, index |-> index]

TableBufInit ==
  /\ AppIdle
  /\ fn_args \in TableShapes
  /\ fn_result = TableBufEntered

\* MD_BLOCK_TH / MD_BLOCK_TD: enter (the alignment is stored), then leave
\* (the cell is stored), both only inside the buffers; the column counter
\* moves on in any case.
TableBufCell ==
  /\ fn_result.in_table
  /\ fn_result.table_row < fn_args.rows
  /\ fn_result.table_column < fn_args.cols
  /\ LET column == fn_result.table_column
         row == fn_result.table_row_count
         entered == IF column < TableCellsCap
                      THEN {Use("table_aligns", column)} ELSE {}
         left == IF row < TableRowsCap /\ column < TableCellsCap
                   THEN {Use("table_rows", row), Use("cells", column),
                         Use("table_aligns", column)}
                   ELSE {}
     IN fn_result' = [fn_result EXCEPT
                        !.used = @ \cup entered \cup left,
                        !.table_column = column + 1]
  /\ UNCHANGED <<appVars, fn_args>>

\* MD_BLOCK_TR: leave, and the enter of the next row. The row is stored
\* with the column counter as its cell_count.
TableBufRowEnd ==
  /\ fn_result.in_table
  /\ fn_result.table_row < fn_args.rows
  /\ fn_result.table_column = fn_args.cols
  /\ LET row == fn_result.table_row_count
     IN fn_result' =
          IF row < TableRowsCap
            THEN [fn_result EXCEPT
                    !.used = @ \cup {Use("table_rows", row)},
                    !.cell_counts = Append(@, fn_result.table_column),
                    !.table_row_count = row + 1,
                    !.table_row = @ + 1,
                    !.table_column = 0]
            ELSE [fn_result EXCEPT !.table_row = @ + 1,
                                   !.table_column = 0]
  /\ UNCHANGED <<appVars, fn_args>>

\* The indices of render_complete_table's first loop (the column widths)
\* and the column count it leaves.
MeasureUses(r) ==
  UNION {UNION {{Use("table_rows", i), Use("cells", j),
                 Use("table_cols", j)} :
                  j \in 0..(r.cell_counts[i + 1] - 1)} :
           i \in 0..(r.table_row_count - 1)}

MeasuredColCount(r) ==
  LET counts == {r.cell_counts[i] : i \in 1..r.table_row_count}
                  \cup {r.table_col_count}
  IN CHOOSE n \in counts : \A m \in counts : m <= n

\* The indices of the loops that draw the borders and the rows.
DrawUses(r, col_count) ==
  {Use("table_cols", j) : j \in 0..(col_count - 1)}
    \cup UNION {{Use("table_rows", i)}
                  \cup {Use("cells", j) :
                          j \in {k \in 0..(col_count - 1) :
                                   k < r.cell_counts[i + 1]}} :
                  i \in 0..(r.table_row_count - 1)}

OutOfBounds(use) ==
  \/ use.buffer = "table_rows" /\ use.index >= TableRowsCap
  \/ use.buffer \in {"cells", "table_cols", "table_aligns"}
       /\ use.index >= TableCellsCap

\* leave_block_callback(MD_BLOCK_TABLE): render_complete_table. An index
\* outside a buffer reads and writes whatever lies behind it; the table
\* is drawn from that, or the process ends.
TableBufClose(outcome) ==
  /\ fn_result.in_table
  /\ fn_result.table_row = fn_args.rows
  /\ LET uses == IF fn_result.table_row_count = 0 THEN {}
                 ELSE MeasureUses(fn_result)
                        \cup DrawUses(fn_result, MeasuredColCount(fn_result))
     IN /\ outcome \in (IF \E use \in uses : OutOfBounds(use)
                          THEN {"garbage", "aborted"} ELSE {"table"})
        /\ fn_result' = [fn_result EXCEPT
                           !.used = @ \cup uses,
                           !.table_col_count =
                             IF fn_result.table_row_count = 0 THEN @
                             ELSE MeasuredColCount(fn_result),
                           !.in_table = FALSE,
                           !.drawn = outcome]
  /\ UNCHANGED <<appVars, fn_args>>

TableBufNext ==
  \/ TableBufCell
  \/ TableBufRowEnd
  \/ \E outcome \in {"table", "garbage", "aborted"} : TableBufClose(outcome)

TableBufSpec == TableBufInit /\ [][TableBufNext]_vars


\* ---------------------------------------------------------------------
\* Headings (md4c_ansi.c): the block callbacks of MD_BLOCK_H and
\* MD_BLOCK_QUOTE and the text callback, called in the parser's order.
\* The renderer's output is the sequence of bytes and escape sequences it
\* hands to process_output; an escape sequence is one element.
\* ---------------------------------------------------------------------
AnsiBold == 1003
AnsiRed == 1004
AnsiYellow == 1005
AnsiBlue == 1006
AnsiCyan == 1008
CharHash == 35

\* md_ansi: the renderer as constructed; process_markdown_to_ansi passes
\* renderer_flags = 0, so neither NO_COLOR nor COMPACT is set.
HeadRendererInit ==
  [out |-> <<>>, line_start |-> TRUE, quote_level |-> 0, list_level |-> 0,
   in_list_item |-> FALSE, block |-> "doc"]

render_newline(r) ==
  [r EXCEPT !.out = Append(@, CharNewline), !.line_start = TRUE]

render_indent(r) ==
  Flatten(Repeat(<<AnsiBrightBlack, BOX_V, CharSpace, AnsiReset>>,
                 r.quote_level))
    \o Flatten(Repeat(<<CharSpace, CharSpace>>, r.list_level))

\* A colour switch whose every case is the first one.
HeadingColorShared(level) == <<AnsiBold, AnsiRed>>

\* render_heading_prefix: the switch on the level that picks the colour.
HeadingColor(level) ==
  CASE level = 1 -> <<AnsiBold, AnsiRed>>
    [] level = 2 -> <<AnsiBold, AnsiYellow>>
    [] level = 3 -> <<AnsiBold, AnsiGreen>>
    [] level = 4 -> <<AnsiBold, AnsiCyan>>
    [] level = 5 -> <<AnsiBold, AnsiBlue>>
    [] OTHER -> <<AnsiBold, AnsiMagenta>>

\* render_heading_prefix: the switch on the level that picks the prefix.
HeadingPrefix(level) ==
  Repeat(CharHash, IF level \in 1..5 THEN level ELSE 6) \o <<CharSpace>>

\* render_text_with_style with the reset "": the style, then the text.
render_heading_prefix(r, level) ==
  [r EXCEPT !.out = @ \o (IF r.line_start THEN render_indent(r) ELSE <<>>)
                      \o HeadingColor(level) \o HeadingPrefix(level)]

HeadingTexts ==
  UNION {[1..n -> {CharLetter, CharHash}] : n \in 0..MaxHeadLen}

HeadInit ==
  /\ AppIdle
  /\ fn_args \in [level : 1..6, text : HeadingTexts]
  /\ fn_result = HeadRendererInit

\* enter_block_callback(MD_BLOCK_QUOTE) before the heading.
HeadQuoteEnter ==
  /\ fn_result.block = "doc"
  /\ fn_result.quote_level < MaxQuote
  /\ fn_result' = [render_newline(fn_result) EXCEPT
                     !.quote_level = @ + 1]
  /\ UNCHANGED <<appVars, fn_args>>

\* enter_block_callback(MD_BLOCK_H).
HeadEnter ==
  /\ fn_result.block = "doc"
  /\ fn_result' = [render_heading_prefix(render_newline(fn_result),
                                         fn_args.level)
                     EXCEPT !.block = "h"]
  /\ UNCHANGED <<appVars, fn_args>>

\* text_callback(MD_TEXT_NORMAL) with the heading's text.
HeadText ==
  /\ fn_result.block = "h"
  /\ fn_args.text # <<>>
  /\ LET indent == IF fn_result.line_start /\ ~fn_result.in_list_item
                     THEN render_indent(fn_result) ELSE <<>>
     IN fn_result' = [fn_result EXCEPT
                        !.out = @ \o indent \o fn_args.text,
                        !.line_start = FALSE,
                        !.block = "text"]
  /\ UNCHANGED <<appVars, fn_args>>

\* leave_block_callback(MD_BLOCK_H).
HeadLeave ==
  /\ \/ fn_result.block = "text"
     \/ fn_result.block = "h" /\ fn_args.text = <<>>
  /\ fn_result' =
       [render_newline(render_newline(
          [fn_result EXCEPT !.out = Append(@, AnsiReset)]))
        EXCEPT !.block = "done"]
  /\ UNCHANGED <<appVars, fn_args>>

HeadNext == HeadQuoteEnter \/ HeadEnter \/ HeadText \/ HeadLeave

HeadSpec == HeadInit /\ [][HeadNext]_vars

\* ---------------------------------------------------------------------
\* The AI library (ai.c): one context used by NumCallers threads. A region
\* the code runs with context->mutex held is one step; what a function does
\* between two such regions is a step of its own, so that other threads'
\* steps fall in between as they can in the code. ai_init has succeeded
\* and ai_context_create has returned the context.
\* ---------------------------------------------------------------------
AI_BRIDGE_INVALID_ID == 0

Callers == 1..NumCallers

\* ai_context_create: the context as returned, with MaxSlots entries for
\* the MAX_SESSIONS_PER_CONTEXT of the source.
ai_context_create ==
  [active_sessions |-> [i \in 0..(MaxSlots - 1) |-> AI_BRIDGE_INVALID_ID],
   session_count |-> 0,
   total_requests |-> 0, successful_requests |-> 0, failed_requests |-> 0,
   freed |-> FALSE]

IdleCaller ==
  [pc |-> "idle", op |-> "none", session_id |-> AI_INVALID_ID,
   session_index |-> -1, bridge_session |-> AI_BRIDGE_INVALID_ID,
   result |-> "none"]

LibInit ==
  /\ AppStateIdle
  /\ fn_args = <<>>
  /\ fn_result = <<>>
  /\ context = ai_context_create
  /\ bridge = [live |-> {}, next_id |-> 1]
  /\ caller = [t \in Callers |-> IdleCaller]
  /\ lib_hist = [calls |-> 0, live |-> {}, destroyed |-> {},
                 destroyed_ever |-> {}, initiated |-> 0,
                 released_access |-> FALSE]

find_bridge_session(ctx, session_id) ==
  IF session_id = AI_INVALID_ID \/ session_id > MaxSlots
    THEN AI_BRIDGE_INVALID_ID
    ELSE LET index == session_id - 1
         IN IF /\ index >= 0
               /\ index < ctx.session_count
               /\ ctx.active_sessions[index] # AI_BRIDGE_INVALID_ID
              THEN ctx.active_sessions[index]
              ELSE AI_BRIDGE_INVALID_ID

update_stats(ctx, success) ==
  [ctx EXCEPT !.total_requests = @ + 1,
              !.successful_requests = IF success THEN @ + 1 ELSE @,
              !.failed_requests = IF success THEN @ ELSE @ + 1]

\* ai_get_stats: the counters copied out under the mutex.
ai_get_stats(ctx) ==
  [total_requests |-> ctx.total_requests,
   successful_requests |-> ctx.successful_requests,
   failed_requests |-> ctx.failed_requests]

\* ai_create_session: the scan for the first unused entry.
FirstFree(ctx) ==
  IF \E i \in 0..(MaxSlots - 1) :
       ctx.active_sessions[i] = AI_BRIDGE_INVALID_ID
    THEN CHOOSE i \in 0..(MaxSlots - 1) :
           /\ ctx.active_sessions[i] = AI_BRIDGE_INVALID_ID
           /\ \A k \in 0..(i - 1) :
                ctx.active_sessions[k] # AI_BRIDGE_INVALID_ID
    ELSE -1

\* No call has aborted the process.
Running == \A t \in Callers : caller[t].result # "aborted"

\* Thread t is outside the library and may enter it on a live context.
CanCall(t) ==
  /\ Running
  /\ caller[t].pc = "idle"
  /\ lib_hist.calls < MaxLibCalls

Returned(op, session_id, result) ==
  [IdleCaller EXCEPT !.op = op, !.session_id = session_id,
                     !.result = result]

\* ai_create_session up to the unlock after the scan.
CreateFind(t) ==
  /\ CanCall(t)
  /\ ~context.freed
  /\ LET session_index == FirstFree(context)
     IN caller' =
          [caller EXCEPT ![t] =
             IF session_index = -1
               THEN Returned("create", AI_INVALID_ID, "max_sessions")
               ELSE [IdleCaller EXCEPT !.pc = "create", !.op = "create",
                                       !.session_index = session_index]]
  /\ lib_hist' = [lib_hist EXCEPT !.calls = @ + 1]
  /\ UNCHANGED <<appStateVars, fnVars, context, bridge>>

\* ai_create_session from ai_bridge_create_session to the return; the
\* bridge gives a new session or fails.
CreateRegister(t, bridge_ok) ==
  /\ Running
  /\ caller[t].pc = "create"
  /\ IF ~bridge_ok
       THEN /\ caller' = [caller EXCEPT ![t] =
                            Returned("create", AI_INVALID_ID, "failed")]
            /\ UNCHANGED <<context, bridge, lib_hist>>
       ELSE LET session_index == caller[t].session_index
                bridge_session == bridge.next_id
                id == session_index + 1
            IN /\ bridge' = [live |-> bridge.live \cup {bridge_session},
                             next_id |-> bridge.next_id + 1]
               /\ context' =
                    [context EXCEPT
                       !.active_sessions[session_index] = bridge_session,
                       !.session_count =
                         IF session_index >= @ THEN session_index + 1 ELSE @]
               /\ caller' = [caller EXCEPT ![t] =
                               Returned("create", id, "ok")]
               /\ lib_hist' =
                    [lib_hist EXCEPT
                       !.live = @ \cup {[id |-> id,
                                         bridge_session |-> bridge_session]},
                       !.destroyed = @ \ {id}]
  /\ UNCHANGED <<appStateVars, fnVars>>

\* ai_destroy_session up to ai_bridge_destroy_session.
DestroyFind(t, session_id) ==
  /\ CanCall(t)
  /\ ~context.freed
  /\ LET bridge_session == find_bridge_session(context, session_id)
     IN IF bridge_session = AI_BRIDGE_INVALID_ID
          THEN /\ caller' = [caller EXCEPT ![t] =
                               Returned("destroy", session_id, "no_session")]
               /\ lib_hist' = [lib_hist EXCEPT
                                 !.calls = @ + 1,
                                 !.destroyed = @ \cup {session_id}]
               /\ UNCHANGED bridge
          ELSE /\ bridge' = [bridge EXCEPT !.live = @ \ {bridge_session}]
               /\ caller' = [caller EXCEPT ![t] =
                               [IdleCaller EXCEPT
                                  !.pc = "destroy", !.op = "destroy",
                                  !.session_id = session_id,
                                  !.bridge_session = bridge_session]]
               /\ lib_hist' = [lib_hist EXCEPT
                                 !.calls = @ + 1,
                                 !.live = {s \in @ : s.id # session_id}]
  /\ UNCHANGED <<appStateVars, fnVars, context>>

\* An ai_destroy_session that returns with the entry still set.
DestroyKeepsEntry(t) ==
  /\ Running
  /\ caller[t].pc = "destroy"
  /\ caller' = [caller EXCEPT ![t] =
                  Returned("destroy", caller[t].session_id, "ok")]
  /\ lib_hist' = [lib_hist EXCEPT
                    !.live = {s \in @ : s.id # caller[t].session_id},
                    !.destroyed = @ \cup {caller[t].session_id},
                    !.destroyed_ever = @ \cup {caller[t].session_id}]
  /\ UNCHANGED <<appStateVars, fnVars, bridge, context>>

\* ai_destroy_session: the entry is cleared under the mutex, then return.
DestroyClear(t) ==
  /\ Running
  /\ caller[t].pc = "destroy"
  /\ LET session_id == caller[t].session_id
         index == session_id - 1
     IN /\ context' = [context EXCEPT
                         !.active_sessions[index] = AI_BRIDGE_INVALID_ID]
        /\ caller' = [caller EXCEPT ![t] =
                        Returned("destroy", session_id, "ok")]
        /\ lib_hist' = [lib_hist EXCEPT
                          !.live = {s \in @ : s.id # session_id},
                          !.destroyed = @ \cup {session_id},
                          !.destroyed_ever = @ \cup {session_id}]
  /\ UNCHANGED <<appStateVars, fnVars, bridge>>

\* ai_generate_response with a prompt; the bridge answers or fails.
GenerateResponse(t, session_id, ok) ==
  /\ CanCall(t)
  /\ ~context.freed
  /\ LET bridge_session == find_bridge_session(context, session_id)
     IN IF bridge_session = AI_BRIDGE_INVALID_ID
          THEN /\ caller' = [caller EXCEPT ![t] =
                               Returned("generate", session_id,
                                        "session_not_found")]
               /\ lib_hist' = [lib_hist EXCEPT !.calls = @ + 1]
               /\ UNCHANGED context
          ELSE /\ context' = update_stats(context, ok)
               /\ caller' = [caller EXCEPT ![t] =
                               Returned("generate", session_id,
                                        IF ok THEN "ok" ELSE "failed")]
               /\ lib_hist' = [lib_hist EXCEPT !.calls = @ + 1,
                                               !.initiated = @ + 1]
  /\ UNCHANGED <<appStateVars, fnVars, bridge>>

\* ai_generate_response_stream with a prompt and a callback; the bridge
\* starts the stream or fails.
GenerateResponseStream(t, session_id, ok) ==
  /\ CanCall(t)
  /\ ~context.freed
  /\ LET bridge_session == find_bridge_session(context, session_id)
     IN IF bridge_session = AI_BRIDGE_INVALID_ID
          THEN /\ caller' = [caller EXCEPT ![t] =
                               Returned("stream", session_id,
                                        "session_not_found")]
               /\ lib_hist' = [lib_hist EXCEPT !.calls = @ + 1]
          ELSE /\ caller' = [caller EXCEPT ![t] =
                               Returned("stream", session_id,
                                        IF ok THEN "ok" ELSE "failed")]
               /\ lib_hist' = [lib_hist EXCEPT !.calls = @ + 1,
                                               !.initiated = @ + 1]
  /\ UNCHANGED <<appStateVars, fnVars, context, bridge>>

\* ai_reset_stats.
ResetStats(t) ==
  /\ CanCall(t)
  /\ ~context.freed
  /\ context' = [context EXCEPT !.total_requests = 0,
                                !.successful_requests = 0,
                                !.failed_requests = 0]
  /\ caller' = [caller EXCEPT ![t] = Returned("reset", AI_INVALID_ID, "ok")]
  /\ lib_hist' = [lib_hist EXCEPT !.calls = @ + 1, !.initiated = 0]
  /\ UNCHANGED <<appStateVars, fnVars, bridge>>

\* ai_context_free(NULL).
ContextFreeNull(t) ==
  /\ CanCall(t)
  /\ caller' = [caller EXCEPT ![t] =
                  Returned("free_null", AI_INVALID_ID, "ok")]
  /\ lib_hist' = [lib_hist EXCEPT !.calls = @ + 1]
  /\ UNCHANGED <<appStateVars, fnVars, context, bridge>>

\* ai_context_free on the live context, no other call being inside the
\* library: the bridge sessions of the first session_count entries are
\* destroyed, the mutex is destroyed and the block is released.
ContextFree(t) ==
  /\ CanCall(t)
  /\ ~context.freed
  /\ \A u \in Callers : caller[u].pc = "idle"
  /\ bridge' = [bridge EXCEPT
                  !.live = @ \ {context.active_sessions[i] :
                                  i \in 0..(context.session_count - 1)}]
  /\ context' = [context EXCEPT !.freed = TRUE]
  /\ caller' = [caller EXCEPT ![t] = Returned("free", AI_INVALID_ID, "ok")]
  /\ lib_hist' = [lib_hist EXCEPT !.calls = @ + 1, !.live = {}]
  /\ UNCHANGED <<appStateVars, fnVars>>

\* ai_context_free on the context that was already freed. The pointer is
\* not NULL, so the function reads session_count and active_sessions from
\* the released block, hands what it read to ai_bridge_destroy_session,
\* destroys the mutex in the block and frees the block a second time: the
\* bridge loses any of its sessions, and the allocator either aborts the
\* process or lets the call return.
ContextFreeAgain(t, garbage, aborted) ==
  /\ CanCall(t)
  /\ context.freed
  /\ garbage \subseteq bridge.live
  /\ bridge' = [bridge EXCEPT !.live = @ \ garbage]
  /\ caller' = [caller EXCEPT ![t] =
                  Returned("free", AI_INVALID_ID,
                           IF aborted THEN "aborted" ELSE "ok")]
  /\ lib_hist' = [lib_hist EXCEPT !.calls = @ + 1,
                                  !.released_access = TRUE]
  /\ UNCHANGED <<appStateVars, fnVars, context>>

LibNext ==
  \E t \in Callers :
    \/ CreateFind(t)
    \/ \E bridge_ok \in BOOLEAN : CreateRegister(t, bridge_ok)
    \/ \E session_id \in 1..MaxSlots : DestroyFind(t, session_id)
    \/ DestroyClear(t)
    \/ \E session_id \in 1..MaxSlots, ok \in BOOLEAN :
         GenerateResponse(t, session_id, ok)
    \/ \E session_id \in 1..MaxSlots, ok \in BOOLEAN :
         GenerateResponseStream(t, session_id, ok)
    \/ ResetStats(t)
    \/ ContextFreeNull(t)
    \/ ContextFree(t)
    \/ \E garbage \in SUBSET bridge.live, aborted \in BOOLEAN :
         ContextFreeAgain(t, garbage, aborted)

LibSpec == LibInit /\ [][LibNext]_vars


\* =====================================================================
\* Properties of the streaming session (checked under Spec)
\* =====================================================================

Idle ==
  /\ ~active
  /\ stream_id = AI_INVALID_ID
  /\ accumulated_text = NULL
  /\ accumulated_length = 0

\* A stream whose cancel was requested and whose handle is not the
\* session's handle.
Stale(s) == streams[s].cancelled /\ stream_id # s

StaleCallback ==
  \E s \in StreamIds : Stale(s) /\ (StreamChunk(s) \/ StreamEnd(s))

\* C1: a streaming callback of a stream whose handle is not the handle of
\* the currently active session (a chunk or a terminator delivered late by
\* a cancelled stream) changes neither the accumulation buffer nor the
\* session flags and enqueues no update.
C1_StaleCallbackMutatesNothing ==
  [][StaleCallback => UNCHANGED <<streamingVars, queue_head, queue_tail>>]_vars

Content(addr) == MessageAt(addr).content

\* C2: a sequence of N >= 1 chunks delivered to the streaming callback and
\* terminated by the success marker: the callback received the N chunks of
\* a stream that was not cancelled, and nothing else, since the session was
\* started (delivered), and then that stream's terminator (finished).
\* Once the queue has been drained the content of the target message is the
\* concatenation of the N chunks in delivery order.
C2_FinalContentIsConcatenation ==
  (/\ finished.target # NULL_MSG
   /\ finished.text # <<>>
   /\ finished.text = streams[finished.stream].sent
   /\ pc = "poll"
   /\ queue_head = <<>>)
    => Content(finished.target) = Ptr(finished.text)

\* C3: the cancel branch, entered in the frame that polled the key while
\* the session was active, leaves the session idle before that frame is
\* rendered: the active flag is cleared, the handle reset and the buffer
\* emptied, whether or not the collaborator has acknowledged the cancel.
C3_CancelGoesIdle ==
  [][(pc = "cancel2" /\ pc' # "cancel2") =>
       (pc' = "render" /\ Idle' /\ ~waiting_for_stream')]_vars

C3_Witness ==
  /\ pc = "render"
  /\ Idle
  /\ \E s \in StreamIds : streams[s].cancelled /\ streams[s].state = "live"

\* The stream of the session the latest start began has delivered nothing
\* yet (or is not created yet).
SessionUntouched ==
  \/ session_stream = AI_INVALID_ID
  \/ /\ streams[session_stream].state = "live"
     /\ streams[session_stream].nsent = 0

\* C4: a session started after a cancel holds an empty accumulation buffer
\* until its own stream delivers, whatever callbacks of the cancelled
\* stream are still in flight.
C4_StartBeginsEmpty ==
  (active /\ SessionUntouched) => accumulated_text = Ptr(<<>>)

\* C9: a new generation is never started while the session's active flag
\* is set.
C9_NoStartWhileActive ==
  [][(pc # "start2" /\ pc' = "start2") => ~active]_vars

C9_Witness ==
  /\ pc = "start2"
  /\ active
  /\ Cardinality(UserMessages) = 2

\* C10: while the session stays active every change of the accumulation
\* buffer appends to it: the previous contents are a prefix of the new
\* contents.  The buffer is discarded only in a step that ends the session.
C10_BufferOnlyGrows ==
  [][(active /\ active') =>
       /\ accumulated_text # NULL
       /\ accumulated_text' # NULL
       /\ IsPrefix(Deref(accumulated_text), Deref(accumulated_text'))]_vars

C10_Witness ==
  /\ active
  /\ accumulated_text # NULL
  /\ \E s \in StreamIds :
       streams[s].nsent = 2 /\ Deref(accumulated_text) = streams[s].sent


\* =====================================================================
\* Properties of the update queue (checked under QSpec)
\* =====================================================================

Count(seq, x) == Cardinality({i \in DOMAIN seq : seq[i] = x})

\* The nodes whose queue_message_update call has returned.
Completed ==
  {n \in Producers \X (1..MaxUpdates) :
     /\ n[2] <= prod[n[1]].sent
     /\ ~(prod[n[1]].pc = "locked" /\ n[2] = prod[n[1]].sent)}

\* Every enqueue call has returned and a drain that began after them has
\* applied its batch.
Quiescent ==
  /\ \A p \in Producers : prod[p].pc = "idle"
  /\ pc = "render"
  /\ queue_head = <<>>

\* C5: after the producer threads' enqueue calls, the drains on the render
\* thread have returned every enqueued update exactly once, and the updates
\* of one producer thread appear in the order that thread enqueued them.
C5_ExactlyOnceInOrder ==
  Quiescent =>
    /\ \A n \in Completed : Count(applied_log, n) = 1
    /\ Len(applied_log) = Cardinality(Completed)
    /\ \A i, j \in DOMAIN applied_log :
         (i < j /\ applied_log[i][1] = applied_log[j][1])
           => applied_log[i][2] < applied_log[j][2]

\* Three updates of two producer threads, all returned by one drain.
C5_Witness ==
  /\ Quiescent
  /\ Len(batch_start.batch) = 3
  /\ applied_log = Nodes(batch_start.batch)
  /\ \E i, j \in DOMAIN applied_log :
       i < j /\ applied_log[i][1] = applied_log[j][1]
  /\ \E i, j \in DOMAIN applied_log : applied_log[i][1] # applied_log[j][1]

\* C6: the render thread applies the updates in exactly the order in which
\* they were appended to the queue, inside one batch and across batches.
C6_StrictEnqueueOrder == IsPrefix(applied_log, enq_log)

\* A batch of two or more updates applied after an earlier batch.
C6_Witness ==
  /\ Len(batch_start.batch) >= 2
  /\ Len(applied_log) > Len(batch_start.batch)

\* C7: outside the consumer's critical section every update whose enqueue
\* has returned is in exactly one place: applied already, in the batch the
\* drain detached, or in the queue for the next drain.
C7_RaceEitherBatchOrQueue ==
  pc # "drain_read" =>
    \A n \in Completed :
      Count(applied_log \o Nodes(current) \o Nodes(queue_head), n) = 1

\* An enqueue that raced with a drain: the batch is detached and not yet
\* applied, and the queue holds an update already.
C7_Witness ==
  /\ pc = "drain_apply"
  /\ current # <<>>
  /\ queue_head # <<>>

Targeting(batch, addr) ==
  {j \in DOMAIN batch : batch[j].target_message = addr}

LastOf(S) == CHOOSE j \in S : \A k \in S : k <= j

\* C8: after a batch has been applied, every field of a message holds the
\* value of the last update of the batch that overwrites that field: the
\* content of the last update that carries content, the streaming flag of
\* the last update, the tool executions of the last update that carries a
\* snapshot; a field no update of the batch overwrites is as before.
C8_LastWriteWinsPerField ==
  batch_start.batch # <<>> =>
    \A i \in DOMAIN messages :
      LET batch == batch_start.batch
          before == batch_start.msgs[i]
          all == Targeting(batch, before.addr)
          withContent == {j \in all : batch[j].new_content # NULL}
          withTools == {j \in all : batch[j].new_tool_executions # NULL}
      IN /\ messages[i].addr = before.addr
         /\ messages[i].is_streaming =
              IF all = {} THEN before.is_streaming
              ELSE batch[LastOf(all)].is_streaming
         /\ messages[i].content =
              IF withContent = {} THEN before.content
              ELSE batch[LastOf(withContent)].new_content
         /\ messages[i].tool_executions =
              IF withTools = {} THEN before.tool_executions
              ELSE batch[LastOf(withTools)].new_tool_executions

\* A batch whose last update carries no content while an earlier one does,
\* and whose last snapshot is not in the last update.
C8_Witness ==
  /\ pc = "render"
  /\ Len(batch_start.batch) = 3
  /\ batch_start.batch[1].new_content # NULL
  /\ batch_start.batch[2].new_tool_executions # NULL
  /\ batch_start.batch[3].new_content # NULL
  /\ ~batch_start.batch[3].is_streaming


\* =====================================================================
\* Completion and failure of a generation (checked under Spec)
\* =====================================================================

\* The terminating call of the stream the active session started.
SessionStreamEnds ==
  \E s \in StreamIds : active /\ s = session_stream /\ StreamEnd(s)

\* The update at the tail of the queue after the step is new, is final
\* (streaming = false) and carries the text accumulated before the step.
FinalUpdateEnqueued ==
  /\ Len(queue_head') = Len(queue_head) + 1
  /\ SubSeq(queue_head', 1, Len(queue_head)) = queue_head
  /\ LET u == queue_head'[Len(queue_head')]
     IN /\ u.target_message = current_streaming
        /\ u.new_content = accumulated_text
        /\ ~u.is_streaming

\* The updates of the pending list that are the last one for their message
\* and are final.
LastIsFinal(list) ==
  {i \in DOMAIN list :
     /\ ~list[i].is_streaming
     /\ \A j \in DOMAIN list :
          j > i => list[j].target_message # list[i].target_message}

\* C11: when the active session's stream delivers its terminating NULL
\* callback, a final update (streaming = false) with the accumulated text is
\* enqueued for the in-flight message and the session is idle; and a drain
\* whose last update for a message is final leaves that message not flagged
\* as streaming.
C11_TerminatorFinalizes ==
  /\ [][SessionStreamEnds =>
          (FinalUpdateEnqueued /\ Idle' /\ ~waiting_for_stream')]_vars
  /\ [][RenderFrame =>
          \A i \in LastIsFinal(queue_head) :
            \A k \in DOMAIN messages' :
              messages'[k].addr = queue_head[i].target_message
                => ~messages'[k].is_streaming]_vars

\* A generation that delivered text has ended and its final update has been
\* applied: the message shows the text and is not streaming.
C11_Witness ==
  /\ pc = "poll"
  /\ Idle
  /\ queue_head = <<>>
  /\ finished.target # NULL_MSG
  /\ finished.text # <<>>
  /\ Content(finished.target) = Ptr(finished.text)
  /\ ~MessageAt(finished.target).is_streaming


\* start_streaming_response returns after ai_generate_response_stream gave
\* no handle.
StartFailsAndReturns ==
  pc = "start4" /\ local_stream_id = AI_INVALID_ID /\ pc' # "start4"

\* C12: when start obtains no stream handle, then by the time it returns a
\* system message reporting the failure is in the message store, an error
\* update is enqueued for the in-flight message, and the session is neither
\* active nor waiting for a first chunk, its handle the invalid one.
C12_StartFailureSurfaced ==
  [][StartFailsAndReturns =>
       /\ ~active'
       /\ ~waiting_for_stream'
       /\ stream_id' = AI_INVALID_ID
       /\ Len(messages') > Len(messages)
       /\ LET m == messages'[Len(messages) + 1]
          IN /\ m.type = MSG_SYSTEM
             /\ m.content \in {Ptr(TextGenerationFailed),
                               Ptr(TextFailedToGenerate)}
       /\ queue_head' # <<>>
       /\ LET u == queue_head'[Len(queue_head')]
          IN /\ u.target_message = current_streaming
             /\ u.new_content = Ptr(ErrStartFailed)
             /\ ~u.is_streaming]_vars

\* A start has failed and returned while a cancelled stream is still live.
C12_Witness ==
  /\ pc = "render"
  /\ ~active
  /\ ~waiting_for_stream
  /\ queue_head # <<>>
  /\ queue_head[Len(queue_head)].new_content = Ptr(ErrStartFailed)
  /\ messages[Len(messages)].type = MSG_SYSTEM
  /\ \E s \in StreamIds : streams[s].cancelled /\ streams[s].state = "live"


IsSuffix(s, t) ==
  Len(s) <= Len(t) /\ SubSeq(t, Len(t) - Len(s) + 1, Len(t)) = s

\* Stream s, started by the latest session, ended with an error-tagged
\* payload; no stream was ever cancelled; every update enqueued so far has
\* been applied and the frame rendered.
EndedInErrorAndDrained(s) ==
  /\ streams[s].state = "failed"
  /\ s = session_stream
  /\ \A t \in StreamIds : ~streams[t].cancelled
  /\ pc = "poll"
  /\ queue_head = <<>>

\* C13: when a stream ends with an error-tagged terminal chunk, then once
\* the queue is drained the message of that generation shows the payload as
\* the end of its content and is not flagged as streaming.
C13_ErrorChunkFinalizes ==
  \A s \in StreamIds :
    EndedInErrorAndDrained(s) =>
      LET m == MessageAt(streams[s].target)
      IN /\ m.content # NULL
         /\ IsSuffix(ErrorText(s), Deref(m.content))
         /\ ~m.is_streaming


\* =====================================================================
\* Properties of the tool handlers (checked under ToolSpec)
\* =====================================================================

IsResolved(e) == e.exec.response # NULL

\* The invocations recorded with their result against message addr, in the
\* order in which they resolved.
ResolvedFor(addr) ==
  SelectSeq(tool_log, LAMBDA e : e.msg = addr /\ IsResolved(e))

\* Every handler has returned, every recorded invocation has its result
\* recorded, and every update has been applied.
ToolsSettled ==
  /\ \A p \in Producers : prod[p].pc = "idle"
  /\ \A i \in DOMAIN tool_log :
       \E j \in DOMAIN tool_log :
         tool_log[j].call = tool_log[i].call /\ IsResolved(tool_log[j])
  /\ pc = "poll"
  /\ queue_head = <<>>

\* C14: after the tool calls of a generation have resolved and the queue
\* has been drained, the message's tool-execution list holds one record for
\* each resolved call, in the order in which the calls resolved.
C14_ToolExecutionsAppended ==
  ToolsSettled =>
    \A k \in DOMAIN messages :
      LET resolved == ResolvedFor(messages[k].addr)
      IN resolved # <<>> =>
           messages[k].tool_executions =
             [i \in 1..Len(resolved) |-> resolved[i].exec]

\* The handler that logged tool_log[i] has returned from that invocation.
HandlerReturned(i) ==
  LET e == tool_log[i]
  IN prod[e.thread].pc = "idle" \/ prod[e.thread].call # e.call

\* C15: every invocation recorded as pending against the in-flight message
\* has, once its handler has returned, a later update that records its
\* result against the same message.
C15_PendingIsResolved ==
  \A i \in DOMAIN tool_log :
    (~IsResolved(tool_log[i]) /\ HandlerReturned(i)) =>
      \E j \in DOMAIN tool_log :
        /\ j > i
        /\ tool_log[j].call = tool_log[i].call
        /\ tool_log[j].msg = tool_log[i].msg
        /\ IsResolved(tool_log[j])


\* =====================================================================
\* Properties of the line wrapper (checked under WrapSpec)
\* =====================================================================

\* The codepoints of a line that are no part of an escape sequence, counted
\* as render_chat_line_with_ansi skips escape sequences: ESC [ up to a
\* final byte, or ESC and the codepoint after it.
RECURSIVE VisibleFrom(_, _, _)
VisibleFrom(line, i, in_escape) ==
  IF i > Len(line) THEN 0
  ELSE IF in_escape
    THEN IF line[i] >= 32 /\ line[i] <= 63
           THEN VisibleFrom(line, i + 1, TRUE)
           ELSE VisibleFrom(line, i + 1, FALSE)
  ELSE IF line[i] = CharEsc
    THEN IF i < Len(line) /\ line[i + 1] = 91
           THEN VisibleFrom(line, i + 2, TRUE)
           ELSE VisibleFrom(line, i + 2, FALSE)
  ELSE 1 + VisibleFrom(line, i + 1, FALSE)

VisibleCount(line) == VisibleFrom(line, 1, FALSE)

Wrapped == fn_result # <<>>

RECURSIVE PaintedFrom(_, _, _)
PaintedFrom(out, i, colour) ==
  IF i > Len(out) THEN <<>>
  ELSE IF out[i] \in {AnsiReset, AnsiGreen}
    THEN PaintedFrom(out, i + 1, out[i])
    ELSE << <<out[i], colour>> >> \o PaintedFrom(out, i + 1, colour)

Painted(out) == PaintedFrom(out, 1, AnsiReset)

\* What a string literal is: after the opening quote a backslash takes
\* the next character with it, and the first quote not so taken closes.
\* LiteralEnd is the index of the closing quote (0: none), EscapePending
\* whether the character after index k is taken by a backslash.
RECURSIVE LiteralEndFrom(_, _)
LiteralEndFrom(line, i) ==
  IF i > Len(line) THEN 0
  ELSE IF line[i] = CharBackslash THEN LiteralEndFrom(line, i + 2)
  ELSE IF line[i] = CharQuote THEN i
  ELSE LiteralEndFrom(line, i + 1)

RECURSIVE EscapePendingFrom(_, _, _)
EscapePendingFrom(line, i, k) ==
  IF i > k THEN FALSE
  ELSE IF line[i] = CharBackslash
    THEN IF i = k THEN TRUE ELSE EscapePendingFrom(line, i + 2, k)
    ELSE EscapePendingFrom(line, i + 1, k)

IsLiteral(line) ==
  /\ line[1] = CharQuote
  /\ LiteralEndFrom(line, 2) = Len(line)

AllGreen(line) == [i \in 1..Len(line) |-> <<line[i], AnsiGreen>>]

\* C17: a string literal that reaches the highlighter in two deliveries is
\* drawn as one string token wherever the split falls: at the start of
\* the second delivery the lexer is in the string state with the escape
\* that is pending, and after it every character of the literal has been
\* drawn in the string colour and the string is closed.
C17_SplitStringOneToken ==
  IsLiteral(fn_args.line) =>
    /\ Len(fn_result) >= 1 =>
         /\ fn_result[1].r.in_string = CharQuote
         /\ (fn_result[1].r.string_escape_next # 0)
              = EscapePendingFrom(fn_args.line, 2, fn_args.split)
    /\ Len(fn_result) = 2 =>
         /\ Painted(fn_result[2].out) = AllGreen(fn_args.line)
         /\ fn_result[2].r.in_string = 0

\* The same for the splits that leave no escape pending.
C17_SplitWithoutEscape ==
  (/\ IsLiteral(fn_args.line)
   /\ \A i \in 1..Len(fn_args.line) : fn_args.line[i] # CharBackslash) =>
    /\ Len(fn_result) >= 1 =>
         /\ fn_result[1].r.in_string = CharQuote
         /\ fn_result[1].r.string_escape_next = 0
    /\ Len(fn_result) = 2 =>
         /\ Painted(fn_result[2].out) = AllGreen(fn_args.line)
         /\ fn_result[2].r.in_string = 0

C17_Witness ==
  /\ IsLiteral(fn_args.line)
  /\ Len(fn_args.line) >= 4
  /\ Len(fn_result) = 2
  /\ Painted(fn_result[2].out) = AllGreen(fn_args.line)


\* ---------------------------------------------------------------------
\* Properties of the line renderer (AnsiSpec)
\* ---------------------------------------------------------------------

IsParamByte(c) ==
  IsDigit(c) \/ c = CharSemicolon \/ c = CharColon \/ (c >= 32 /\ c <= 47)

IsFinalByte(c) == c >= 64 /\ c <= 126

\* The first escape of the text, when the text has no ESC before it and
\* it is a control sequence: EscAt is the index of its ESC (0: none) and
\* ParamEnd the index of the first byte after its parameter bytes.
EscAt(text) ==
  IF \E k \in 1..Len(text) : text[k] = CharEsc
    THEN CHOOSE k \in 1..Len(text) :
           /\ text[k] = CharEsc
           /\ \A i \in 1..(k - 1) : text[i] # CharEsc
    ELSE 0

RECURSIVE ParamEnd(_, _)
ParamEnd(text, j) ==
  IF j <= Len(text) /\ IsParamByte(text[j]) THEN ParamEnd(text, j + 1) ELSE j

\* The control sequence is cut short: the text ends, or a byte that is
\* neither a parameter nor a final byte comes.
FirstIsMalformed(text) ==
  /\ EscAt(text) # 0
  /\ ByteAt(text, EscAt(text) + 1) = CharOpenBracket
  /\ LET j == ParamEnd(text, EscAt(text) + 2)
     IN ~IsFinalByte(ByteAt(text, j))

\* The text without bytes from..to.
Without(text, from, to) ==
  SubSeq(text, 1, from - 1) \o SubSeq(text, to + 1, Len(text))

\* The text without its malformed sequence. The byte that cut the
\* sequence short goes with it, except that an ESC may also be read as
\* the start of the next escape.
Abandoned(text) ==
  LET k == EscAt(text)
      j == ParamEnd(text, k + 2)
  IN IF j > Len(text) THEN {Without(text, k, Len(text))}
     ELSE IF text[j] = CharEsc
       THEN {Without(text, k, j - 1), Without(text, k, j)}
     ELSE {Without(text, k, j)}

CellsOf(text) ==
  render_chat_line_with_ansi(text, fn_args.x, fn_args.y,
                             fn_args.max_width).cells

RenderDone == ~RenderContinues(fn_args.text, fn_result)

\* C18: a malformed or truncated escape sequence is abandoned: the cells
\* written for the line, and their attributes, are those of the line
\* without that sequence, and the renderer reaches the end of the line.
C18_MalformedEscapeAbandoned ==
  (RenderDone /\ FirstIsMalformed(fn_args.text)) =>
    /\ fn_result.ptr > Len(fn_args.text)
    /\ \E rest \in Abandoned(fn_args.text) : fn_result.cells = CellsOf(rest)

\* The same for the lines in which no operating-system command begins.
C18_AbandonedWithoutOsc ==
  (/\ RenderDone
   /\ FirstIsMalformed(fn_args.text)
   /\ \A i \in 1..Len(fn_args.text) : fn_args.text[i] # CharCloseBracket) =>
    /\ fn_result.ptr > Len(fn_args.text)
    /\ \E rest \in Abandoned(fn_args.text) : fn_result.cells = CellsOf(rest)

C18_Witness ==
  /\ RenderDone
  /\ FirstIsMalformed(fn_args.text)
  /\ ParamEnd(fn_args.text, EscAt(fn_args.text) + 2)
       > EscAt(fn_args.text) + 2
  /\ fn_result.cells # <<>>
  /\ \E rest \in Abandoned(fn_args.text) : fn_result.cells = CellsOf(rest)


\* ---------------------------------------------------------------------
\* Properties of markdown rendering across frames (MdSpec)
\* ---------------------------------------------------------------------

LinesOf(addr) ==
  fn_result[CHOOSE k \in 1..Len(messages) : messages[k].addr = addr]

\* C19 as stated: a message whose markdown rendering failed while its
\* update was applied keeps the content, and stays flagged until its
\* lines are the markdown rendering of that content, so that a later
\* frame tries again.
C19_FailedMarkdownStaysDirty ==
  pc \in {"dirty", "poll"} =>
    \A f \in fn_args.failed :
      /\ MessageAt(f.addr).content = f.content
      /\ LinesOf(f.addr) # [mode |-> "markdown", text |-> Deref(f.content)]
           => MessageAt(f.addr).needs_rerender

\* C19: a message whose markdown rendering failed while its update was
\* applied keeps the content and is flagged when process_message_updates
\* returns; the pass over the flagged messages in the same frame tries
\* again, and leaves the message unflagged with lines made from that
\* content, as markdown or as plain text.
C19_FailedMarkdownRetriedInFrame ==
  \A f \in fn_args.failed :
    /\ MessageAt(f.addr).content = f.content
    /\ pc = "dirty" => MessageAt(f.addr).needs_rerender
    /\ pc = "poll" =>
         /\ ~MessageAt(f.addr).needs_rerender
         /\ LinesOf(f.addr).text = Deref(f.content)
         /\ LinesOf(f.addr).mode \in {"markdown", "plain"}

C19_Witness ==
  /\ pc = "poll"
  /\ \E f \in fn_args.failed :
       /\ MessageAt(f.addr).content = f.content
       /\ LinesOf(f.addr) = [mode |-> "plain", text |-> Deref(f.content)]


\* ---------------------------------------------------------------------
\* Properties of the accumulation buffer under allocation failure
\* (AllocSpec)
\* ---------------------------------------------------------------------

\* The chunks 1..n of stream s for which realloc returned a block, in
\* order.
RECURSIVE AcceptedText(_, _, _)
AcceptedText(s, oks, n) ==
  IF n = 0 THEN <<>>
  ELSE AcceptedText(s, oks, n - 1)
         \o (IF oks[n] THEN ChunkText(s, n) ELSE <<>>)

\* The content most recently enqueued for the streaming message: that of
\* the last pending update, or what the message shows.
LatestContent ==
  IF queue_head # <<>>
    THEN queue_head[Len(queue_head)].new_content
    ELSE MessageAt(current_streaming).content

\* C20: when realloc fails for a chunk only that chunk is dropped: while
\* the stream runs the session is active, the buffer is the
\* concatenation of the chunks for which realloc succeeded, before and
\* after the failure, and the last of them was enqueued with the whole
\* buffer.
C20_OnlyFailedChunkDropped ==
  streams[1].state = "live" =>
    LET accepted == AcceptedText(1, fn_args, Len(fn_args))
    IN /\ active
       /\ stream_id = 1
       /\ accumulated_text = Ptr(accepted)
       /\ accumulated_length = Len(accepted)
       /\ accepted # <<>> => LatestContent = Ptr(accepted)

C20_Witness ==
  /\ streams[1].state = "live"
  /\ \E k \in 1..(Len(fn_args) - 1) : ~fn_args[k] /\ fn_args[k + 1]
  /\ \E k \in 1..Len(fn_args) : fn_args[k] /\ k < Len(fn_args) /\ ~fn_args[k + 1]
  /\ queue_head # <<>>
  /\ queue_head[Len(queue_head)].new_content = accumulated_text

\* ---------------------------------------------------------------------
\* Properties of the table renderer (TableSpec)
\* ---------------------------------------------------------------------

\* The characters a text shows: the bytes that are not continuation
\* bytes of a UTF-8 sequence (the cells hold no escape sequence).
VisibleWidth(text) ==
  Cardinality({i \in 1..Len(text) : ~(text[i] >= 128 /\ text[i] < 192)})

MaxOf(S) == CHOOSE x \in S : \A y \in S : y <= x

ExpectedWidths ==
  [j \in 1..Len(fn_args[1]) |->
     MaxOf({VisibleWidth(fn_args[i][j]) : i \in 1..Len(fn_args)})]

RECURSIVE GlyphsFrom(_, _)
GlyphsFrom(line, i) ==
  IF i > Len(line) THEN <<>>
  ELSE IF line[i] \in {AnsiBrightBlack, AnsiReset}
    THEN GlyphsFrom(line, i + 1)
    ELSE <<line[i]>> \o GlyphsFrom(line, i + 1)

\* A border without its colour sequences.
Glyphs(line) == GlyphsFrom(line, 1)

ExpectedBorder(left, joint, right) ==
  <<left>>
    \o Flatten([j \in 1..Len(ExpectedWidths) |->
                  Repeat(BOX_H, ExpectedWidths[j] + 2)
                    \o (IF j < Len(ExpectedWidths) THEN <<joint>> ELSE <<>>)])
    \o <<right>>

TableDrawn == ~fn_result.in_table

TableWidthsAndBorders ==
  /\ \A j \in 1..Len(ExpectedWidths) :
       fn_result.table_cols[j] = ExpectedWidths[j]
  /\ Glyphs(fn_result.out[1])
       = ExpectedBorder(BOX_TL, BOX_T_DOWN, BOX_TR)
  /\ Glyphs(fn_result.out[Len(fn_result.out)])
       = ExpectedBorder(BOX_BL, BOX_T_UP, BOX_BR)
  /\ Len(fn_args) > 1 =>
       Glyphs(fn_result.out[3])
         = ExpectedBorder(BOX_T_RIGHT, BOX_CROSS, BOX_T_LEFT)

\* C21: when the table block closes, the width of each column is the
\* largest visible width among the column's cells, and the top, middle
\* and bottom borders are box-drawing lines sized to those widths.
C21_ColumnWidthsAreVisibleWidths ==
  TableDrawn => TableWidthsAndBorders

\* The same for the tables whose cells are ASCII.
C21_AsciiTables ==
  (/\ TableDrawn
   /\ \A i \in 1..Len(fn_args) : \A j \in 1..Len(fn_args[i]) :
        \A k \in 1..Len(fn_args[i][j]) : fn_args[i][j][k] < 128)
    => TableWidthsAndBorders

C21_Witness ==
  /\ TableDrawn
  /\ fn_args = ExampleTable
  /\ fn_result.table_cols[1] = 2
  /\ fn_result.table_cols[2] = 4
  /\ TableWidthsAndBorders

\* ---------------------------------------------------------------------
\* C22  Headings
\* ---------------------------------------------------------------------
HeadingDone == fn_result.block = "done"

\* The position of the first '#' of the output (0 when there is none).
FirstHash(out) ==
  IF \E i \in 1..Len(out) : out[i] = CharHash
    THEN CHOOSE i \in 1..Len(out) :
           out[i] = CharHash /\ \A k \in 1..(i - 1) : out[k] # CharHash
    ELSE 0

\* The output with its trailing newlines removed.
RECURSIVE WithoutTrailingNewlines(_)
WithoutTrailingNewlines(out) ==
  IF out # <<>> /\ out[Len(out)] = CharNewline
    THEN WithoutTrailingNewlines(SubSeq(out, 1, Len(out) - 1))
    ELSE out

\* The prefix is the level's colour followed by exactly level '#' and a blank.
HeadingPrefixShown ==
  LET out == fn_result.out
      p == FirstHash(out)
      level == fn_args.level
  IN /\ p > 2
     /\ p + level <= Len(out)
     /\ \A k \in p..(p + level - 1) : out[k] = CharHash
     /\ out[p + level] = CharSpace
     /\ <<out[p - 2], out[p - 1]>> = HeadingColor(level)

HeadingEndsWithReset ==
  LET body == WithoutTrailingNewlines(fn_result.out)
  IN body # <<>> /\ body[Len(body)] = AnsiReset

LevelColorsDistinct ==
  \A a, b \in 1..6 : a # b => HeadingColor(a) # HeadingColor(b)

\* C22: a rendered heading starts with as many '#' as its level, in the
\* colour of that level, the colours of different levels differ (level 2
\* from level 1 in particular), and the heading ends with a style reset.
C22_HeadingPrefixColorReset ==
  HeadingDone =>
    HeadingPrefixShown /\ HeadingEndsWithReset /\ LevelColorsDistinct

\* The heading "## a" outside any quote, rendered.
C22_Witness ==
  /\ HeadingDone
  /\ fn_args.level = 2
  /\ fn_args.text = <<CharLetter>>
  /\ fn_result.out = <<CharNewline, AnsiBold, AnsiYellow, CharHash, CharHash,
                       CharSpace, CharLetter, AnsiReset, CharNewline,
                       CharNewline>>


\* ---------------------------------------------------------------------
\* C23  Concurrent ai_create_session
\* ---------------------------------------------------------------------
\* lib_hist.live holds the sessions whose ai_create_session returned their
\* ID and for whose ID no ai_destroy_session has been called since.

\* C23: every live session of the context has an ID no other live session
\* has, and its bridge session is the one registered under that ID.
C23_ConcurrentCreateUniqueIds ==
  /\ \A a, b \in lib_hist.live : a.id = b.id => a = b
  /\ \A s \in lib_hist.live :
       find_bridge_session(context, s.id) = s.bridge_session

\* Two threads have each created a session, and the IDs differ.
C23_Witness ==
  /\ \A t \in Callers : caller[t].op = "create" /\ caller[t].result = "ok"
  /\ caller[1].session_id # caller[2].session_id
  /\ C23_ConcurrentCreateUniqueIds

\* ---------------------------------------------------------------------
\* C24  ai_context_free twice
\* ---------------------------------------------------------------------
\* C24: no call of ai_context_free reads or writes the released context.
C24_FreeTwiceTouchesNothing == ~lib_hist.released_access

\* ai_context_free(NULL) has returned and the context is as created.
C24_Witness ==
  /\ \E t \in Callers : caller[t].op = "free_null"
  /\ context = ai_context_create

\* ---------------------------------------------------------------------
\* C25  ai_destroy_session invalidates the ID
\* ---------------------------------------------------------------------
\* C25 as stated: an ID whose session was destroyed never again names a
\* session, whatever is called afterwards.
C25_DestroyedIdNeverValidAgain ==
  \A id \in lib_hist.destroyed_ever :
    find_bridge_session(context, id) = AI_BRIDGE_INVALID_ID

DestroyedIdsInvalid ==
  \A id \in lib_hist.destroyed :
    find_bridge_session(context, id) = AI_BRIDGE_INVALID_ID

\* C25: from the return of ai_destroy_session(id) until an
\* ai_create_session returns the same ID, no operation finds a session
\* under the ID, and destroying it again changes neither the context nor
\* the bridge.
C25_DestroyedIdInvalidUntilReissued ==
  [][/\ DestroyedIdsInvalid'
     /\ \A t \in Callers, id \in lib_hist.destroyed :
          DestroyFind(t, id) => context' = context /\ bridge' = bridge]_vars

\* Session 1 was created and destroyed, and a generation request given
\* the ID has failed as session-not-found.
C25_Witness ==
  /\ 1 \in lib_hist.destroyed_ever
  /\ 1 \in lib_hist.destroyed
  /\ \E t \in Callers :
       caller[t] = Returned("generate", 1, "session_not_found")

\* ---------------------------------------------------------------------
\* C26  total_requests
\* ---------------------------------------------------------------------
\* lib_hist.initiated counts the generation requests, synchronous or
\* streaming, handed to the bridge since the context was created or its
\* statistics were reset.

\* C26: ai_get_stats reports as total_requests the number of generation
\* requests initiated since creation or the last reset.
C26_TotalRequestsCountsAll ==
  ~context.freed =>
    ai_get_stats(context).total_requests = lib_hist.initiated

\* A synchronous request was made and is counted.
C26_Witness ==
  /\ lib_hist.initiated = 1
  /\ ai_get_stats(context).total_requests = 1
  /\ \E t \in Callers : caller[t].op = "generate" /\ caller[t].result = "ok"

\* ---------------------------------------------------------------------
\* C27  Pending updates and destroyed messages
\* ---------------------------------------------------------------------
Exists(addr) == addr \in StoreAddrs(messages)

\* C27: when the queue is drained, every update in it that names a message
\* names one that is in the store.
C27_PendingUpdatesTargetExisting ==
  pc = "render" =>
    \A k \in 1..Len(queue_head) :
      queue_head[k].target_message # NULL_MSG =>
        Exists(queue_head[k].target_message)

\* A drain is about to apply an update to the message being generated.
C27_Witness ==
  /\ pc = "render"
  /\ queue_head # <<>>
  /\ \A k \in 1..Len(queue_head) :
       queue_head[k].target_message = current_streaming
  /\ Exists(current_streaming)

\* ---------------------------------------------------------------------
\* C28  The in-flight message reference
\* ---------------------------------------------------------------------
\* C28: app.current_streaming is NULL or the address of a message in the
\* store.
C28_InFlightReferenceExists ==
  current_streaming = NULL_MSG \/ Exists(current_streaming)

\* After a cancel the reference still names the cancelled message.
C28_Witness ==
  /\ ~active
  /\ \E s \in StreamIds : streams[s].cancelled
  /\ Exists(current_streaming)
  /\ ~MessageAt(current_streaming).is_streaming

\* ---------------------------------------------------------------------
\* C29  The streaming flag after a cancel
\* ---------------------------------------------------------------------
\* The message a cancelled generation was writing.
CancelledMessages ==
  {streams[s].target : s \in {t \in StreamIds : streams[t].cancelled}}

\* C29: at the start of a frame's poll, which follows the drain of the
\* frame before, no message of a cancelled generation is flagged as
\* streaming.
C29_CancelledMessageNotStreaming ==
  pc = "poll" =>
    \A addr \in CancelledMessages : ~MessageAt(addr).is_streaming

\* A generation was cancelled with nothing in the queue, and after the
\* drain its message is not flagged.
C29_Witness ==
  /\ pc = "poll"
  /\ CancelledMessages # {}
  /\ \A addr \in CancelledMessages : ~MessageAt(addr).is_streaming


\* ---------------------------------------------------------------------
\* C30  Updates are applied by the next drain
\* ---------------------------------------------------------------------
\* A drain has run to its end.
DrainDone == pc = "render" /\ batch_start.batch # <<>>

SeqToSet(s) == {s[i] : i \in 1..Len(s)}

\* C30: when a drain has finished, every update whose enqueue had returned
\* when the drain took the lock has been applied, and none of them is
\* still in the queue.
C30_EnqueuedBeforeDrainApplied ==
  pc = "render" =>
    /\ SeqToSet(batch_start.enqueued) \subseteq SeqToSet(applied_log)
    /\ SeqToSet(Nodes(queue_head)) \cap SeqToSet(batch_start.enqueued) = {}

\* A drain applied two updates enqueued before it, while a third, enqueued
\* after the drain had begun, waits for the next one.
C30_Witness ==
  /\ DrainDone
  /\ Len(batch_start.enqueued) = 2
  /\ Len(batch_start.batch) = 2
  /\ applied_log = batch_start.enqueued
  /\ Len(queue_head) = 1


\* ---------------------------------------------------------------------
\* C39  The session's handle and waiting flag while it is not active
\* ---------------------------------------------------------------------
\* C39: whenever the session is not active, its stored stream handle is
\* AI_INVALID_ID and its waiting_for_stream flag is false.
C39_InactiveSessionHasNoHandle ==
  ~active => stream_id = AI_INVALID_ID /\ ~waiting_for_stream

\* The stream that start_streaming_response started has ended before its
\* handle was stored: the session is not active and holds that handle.
C39_EndedBeforeHandleStored ==
  /\ ~active
  /\ stream_id # AI_INVALID_ID
  /\ stream_id = session_stream
  /\ streams[stream_id].state = "done"
  /\ ~streams[stream_id].cancelled

\* The stream ended after its handle was stored: the session is not active
\* and holds no handle.
C39_Witness ==
  /\ ~active
  /\ session_stream # AI_INVALID_ID
  /\ streams[session_stream].state = "done"
  /\ ~streams[session_stream].cancelled
  /\ stream_id = AI_INVALID_ID
  /\ ~waiting_for_stream


\* ---------------------------------------------------------------------
\* C33  Animation ticks and the layout cache
\* ---------------------------------------------------------------------
\* The messages that are actively streaming: the target of a stream that
\* has not ended and was not cancelled while the session is active, and
\* every message whose is_streaming flag is set.
ActivelyStreaming ==
  {streams[s].target :
     s \in {t \in StreamIds : /\ active
                              /\ streams[t].state = "live"
                              /\ ~streams[t].cancelled}}
    \cup {messages[i].addr :
            i \in {k \in 1..Len(messages) : messages[k].is_streaming}}

\* The messages whose needs_rerender flag the step sets.
MarkedDirty ==
  {messages[i].addr :
     i \in {k \in 1..Len(messages) :
              /\ k <= Len(messages')
              /\ messages'[k].addr = messages[k].addr
              /\ ~messages[k].needs_rerender
              /\ messages'[k].needs_rerender}}

\* A step of update_animations: the render thread stays at the poll and
\* the store is the same but for needs_rerender flags.
IsAnimationTick ==
  /\ pc = "poll"
  /\ pc' = "poll"
  /\ messages' # messages
  /\ Len(messages') = Len(messages)
  /\ \A k \in 1..Len(messages) :
       messages'[k] = [messages[k] EXCEPT
                         !.needs_rerender = messages'[k].needs_rerender]

\* C33: an animation tick marks a message dirty only while the message is
\* actively streaming.
C33_TickMarksOnlyStreamingMessage ==
  [][IsAnimationTick => MarkedDirty \subseteq ActivelyStreaming]_vars

\* A running generation's message has been marked by a tick: nothing else
\* flags it between two frames while the generation runs.
C33_Witness ==
  /\ pc = "poll"
  /\ active
  /\ streams[1].state = "live"
  /\ ~streams[1].cancelled
  /\ streams[1].target = current_streaming
  /\ Exists(current_streaming)
  /\ MessageAt(current_streaming).is_streaming
  /\ MessageAt(current_streaming).needs_rerender
  /\ queue_head = <<>>
  /\ streams[1].nsent > 0


\* ---------------------------------------------------------------------
\* C37  A block comment across deliveries
\* ---------------------------------------------------------------------
\* The characters of the output with the colour each is drawn in: the
\* sequences emitted since the last reset.
RECURSIVE ColouredFrom(_, _, _)
ColouredFrom(out, i, colour) ==
  IF i > Len(out) THEN <<>>
  ELSE IF out[i] = AnsiReset THEN ColouredFrom(out, i + 1, <<>>)
  ELSE IF out[i] >= 1000 THEN ColouredFrom(out, i + 1, Append(colour, out[i]))
  ELSE << <<out[i], colour>> >> \o ColouredFrom(out, i + 1, colour)

Coloured(out) == ColouredFrom(out, 1, <<>>)

\* The index at which the first "*/" at or after index i ends, and
\* Len(text) when there is none.
RECURSIVE CommentEndFrom(_, _)
CommentEndFrom(text, i) ==
  IF i >= Len(text) THEN Len(text)
  ELSE IF text[i] = CharStar /\ text[i + 1] = CharSlash THEN i + 1
  ELSE CommentEndFrom(text, i + 1)

HasCommentEnd(text, i) ==
  \E k \in i..(Len(text) - 1) : text[k] = CharStar /\ text[k + 1] = CharSlash

FirstText == SubSeq(fn_args.line, 1, fn_args.split)
SecondText == SubSeq(fn_args.line, fn_args.split + 1, Len(fn_args.line))

\* The first delivery opens a block comment and does not close it, and
\* its last character is not the first half of a closing "*/".
OpensBlockComment ==
  /\ Len(FirstText) >= 2
  /\ FirstText[1] = CharSlash
  /\ FirstText[2] = CharStar
  /\ ~HasCommentEnd(FirstText, 3)
  /\ Len(FirstText) > 2 => FirstText[Len(FirstText)] # CharStar

\* C37: a block comment opened and not closed in one delivery leaves the
\* lexer in the in-comment state, and the characters of the following
\* delivery are drawn in the comment colour up to the closing "*/".
C37_OpenCommentCarriesOver ==
  OpensBlockComment =>
    /\ Len(fn_result) >= 1 => fn_result[1].r.in_comment = 2
    /\ Len(fn_result) = 2 =>
         \A k \in 1..CommentEndFrom(SecondText, 1) :
           Coloured(fn_result[2].out)[fn_args.split + k]
             = <<SecondText[k], CommentColor>>

\* A block comment that is opened and closed in the first delivery is
\* drawn in the comment colour and leaves the lexer outside a comment.
C37_Witness ==
  /\ Len(fn_result) = 2
  /\ FirstText = <<CharSlash, CharStar, CharStar, CharSlash>>
  /\ fn_result[1].r.in_comment = 0
  /\ \A k \in 1..4 :
       Coloured(fn_result[1].out)[k] = <<FirstText[k], CommentColor>>
  /\ Coloured(fn_result[2].out)[5] = <<CharLetter, <<>> >>


\* ---------------------------------------------------------------------
\* C40  Indices of the table buffers
\* ---------------------------------------------------------------------
\* C40: every row index and column index with which the table buffers
\* are read or written lies within the buffers' capacities.
C40_TableIndicesInBounds ==
  \A use \in fn_result.used : ~OutOfBounds(use)

\* A table with more rows than the buffer holds and as many columns as a
\* row holds has been drawn with every index inside the buffers.
C40_Witness ==
  /\ fn_args.rows > TableRowsCap
  /\ fn_args.cols = TableCellsCap
  /\ fn_result.drawn = "table"
  /\ fn_result.table_row_count = TableRowsCap
  /\ Use("cells", TableCellsCap - 1) \in fn_result.used
  /\ \A use \in fn_result.used : ~OutOfBounds(use)


\* ---------------------------------------------------------------------
\* C36  Where a wrapped line breaks
\* ---------------------------------------------------------------------
\* The line does not fit in one row.
MustWrap == Len(fn_args.text) > fn_args.max_width

\* The index of the last word boundary among the characters that fit in
\* the row, 0 when there is none.
LastBoundary ==
  LET found == {k \in 1..fn_args.max_width :
                  is_word_boundary(fn_args.text[k])}
  IN IF found = {} THEN 0 ELSE CHOOSE k \in found : \A m \in found : m <= k

\* The row breaks at the last word boundary when that lies at or beyond a
\* third of the width (no character behind the boundary is on the row),
\* and at the width otherwise.
BreaksByPolicy(first_row_length) ==
  IF LastBoundary > 0 /\ LastBoundary >= fn_args.max_width \div 3
    THEN first_row_length <= LastBoundary
    ELSE first_row_length = fn_args.max_width

\* The characters each wrapper put on the first row.
CodeFirstRow ==
  IF fn_result.code.rows # <<>> THEN Len(fn_result.code.rows[1])
  ELSE Len(fn_result.code.row)

LineFirstRow ==
  Cardinality({k \in 1..Len(fn_result.line.cells) :
                 fn_result.line.cells[k].y = fn_args.y})

CodeTextDone == fn_result.code.i >= Len(fn_args.text)

LineDone == ~RenderContinues(fn_args.text, fn_result.line)

\* C36: a line that has to be wrapped is broken by both wrappers at the
\* last word boundary if that lies at or beyond one third of the width,
\* and split at the width otherwise.
C36_BreakAtBoundaryFromOneThird ==
  MustWrap =>
    /\ CodeTextDone => BreaksByPolicy(CodeFirstRow)
    /\ LineDone => BreaksByPolicy(LineFirstRow)

\* A line with no word boundary in reach has been split at the width by
\* both wrappers.
C36_Witness ==
  /\ MustWrap
  /\ LastBoundary = 0
  /\ CodeTextDone
  /\ LineDone
  /\ CodeFirstRow = fn_args.max_width
  /\ LineFirstRow = fn_args.max_width


\* ---------------------------------------------------------------------
\* C35: in every frame the update queue is drained, every update that
\* was pending is applied to its message, and every message that is
\* flagged dirty is rendered before the frame is presented: when
\* render_frame presents, no message is flagged dirty.
\* ---------------------------------------------------------------------

\* The updates of a detached list that carry content.
WithContent(list) == {i \in 1..Len(list) : list[i].new_content # NULL}

\* process_message_updates has run: the queue is empty and the target of
\* the pending updates has the content of the last update that carried
\* one, and the streaming flag of the last update.
DrainAppliedAll ==
  /\ queue_head' = <<>>
  /\ queue_tail' = NULL
  /\ \A k \in 1..Len(messages) :
       (queue_head # <<>> /\ messages[k].addr = current_streaming)
         => /\ messages'[k].is_streaming
                 = queue_head[Len(queue_head)].is_streaming
            /\ WithContent(queue_head) # {}
                 => messages'[k].content
                      = queue_head[LastOf(WithContent(queue_head))].new_content

\* The pass over the flagged messages has run and the frame is presented.
PresentedClean ==
  /\ \A k \in 1..Len(messages) : ~messages'[k].needs_rerender
  /\ \A k \in 1..Len(messages) :
       /\ messages'[k].content = messages[k].content
       /\ messages'[k].is_streaming = messages[k].is_streaming

C35_FramePresentedDrainedAndClean ==
  [][/\ (pc = "render" /\ pc' = "dirty") => DrainAppliedAll
     /\ (pc = "dirty" /\ pc' = "poll") => PresentedClean]_vars

\* A frame has been presented in which an update was drained, its
\* markdown rendering failed so that the message was flagged, and the
\* pass over the flagged messages rendered it.
C35_Witness ==
  /\ pc = "poll"
  /\ fn_args.failed # {}
  /\ queue_head = <<>>
  /\ \E k \in 1..Len(messages) :
       /\ messages[k].addr = current_streaming
       /\ messages[k].content = Ptr(ChunkText(1, 2))
       /\ ~messages[k].needs_rerender


\* ---------------------------------------------------------------------
\* C34: every line in a message's cache is one terminal row: its visible
\* width is at most the width of the chat content, so that the row
\* draw_chat_messages gives it is the only row it is painted on.
\* ---------------------------------------------------------------------
FitsContentWidth(line) ==
  VisibleCount(line) <= ChatContentWidth(fn_args.chat_width)

C34_CachedLineIsOneRow ==
  fn_result.stage = "cached"
    => /\ \A k \in 1..Len(fn_result.lines) :
            FitsContentWidth(fn_result.lines[k])
       /\ \A k \in 1..Len(fn_result.drawn) :
            fn_result.drawn[k].last_row = fn_result.drawn[k].first_row

\* Two paragraphs that fit the width were cached and drawn, one row each.
C34_Witness ==
  /\ fn_result.stage = "cached"
  /\ Len(fn_result.lines) >= 2
  /\ Len(fn_result.drawn) = Len(fn_result.lines)
  /\ \A k \in 1..Len(fn_result.lines) :
       /\ Len(fn_result.lines[k]) > 0
       /\ FitsContentWidth(fn_result.lines[k])
       /\ fn_result.drawn[k].last_row = fn_result.drawn[k].first_row

\* A paragraph wider than the chat content is cached as one line and
\* painted on the row of the item after it as well.
C34_WideParagraphCachedWhole ==
  /\ fn_result.stage = "cached"
  /\ Len(fn_result.drawn) >= 1
  /\ ~FitsContentWidth(fn_result.lines[1])
  /\ fn_result.drawn[1].last_row > fn_result.drawn[1].first_row


\* ---------------------------------------------------------------------
\* C38: when a frame is presented the scroll offset is within its range:
\* 0 <= scroll_offset <= max(0, total_lines - visible_lines), whatever
\* scrolling, content updates, cancels, resizes and history clears came
\* before.
\* ---------------------------------------------------------------------
C38_ScrollOffsetInRange ==
  /\ fn_result.chat.scroll_offset >= 0
  /\ fn_result.chat.scroll_offset <= MaxScroll(fn_result.chat)

\* The chat was scrolled back while a message was streaming and the
\* offset is in its range.
C38_Witness ==
  /\ fn_result.chat.scroll_offset > 0
  /\ fn_result.chat.scroll_offset <= MaxScroll(fn_result.chat)
  /\ fn_result.active
  /\ ~fn_result.chat.auto_scroll

\* The frame of a cancel: the message loses the line of its cursor while
\* the chat is scrolled to its top.
C38_CancelLeavesOffsetBeyondRange ==
  /\ fn_args.ev = "esc"
  /\ ~fn_result.active
  /\ fn_result.chat.scroll_offset > MaxScroll(fn_result.chat)


\* ---------------------------------------------------------------------
\* C32: a callback thread never touches a message: a step of the
\* streaming callback or of a tool handler leaves the store as it is; it
\* changes the session state under its mutex and appends at most one
\* update to the queue, a record holding its own copy of the text or of
\* the tool executions, and the records already queued stay as they are.
\* ---------------------------------------------------------------------

\* A step in which the render thread stays where it is.
IsCallbackStep == pc' = pc

StreamingCallbackRan == streams' # streams

ToolHandlerRan == prod' # prod

\* The text the streaming callback holds when it enqueues: the buffer
\* after the chunk was appended, or the buffer it is about to free.
CallbackText ==
  IF accumulated_text' # NULL THEN accumulated_text' ELSE accumulated_text

EnqueuedRecordIsCopy ==
  LET u == queue_head'[Len(queue_head')]
  IN /\ u.target_message = current_streaming
     /\ StreamingCallbackRan
          => /\ u.new_content = CallbackText
             /\ u.new_tool_executions = NULL
             /\ u.is_streaming = active'
     /\ ToolHandlerRan
          => /\ u.new_content = NULL
             /\ u.new_tool_executions # NULL
             /\ u.is_streaming

C32_CallbacksLeaveMessagesAlone ==
  [][IsCallbackStep
       => /\ messages' = messages
          /\ current_streaming' = current_streaming
          /\ Len(queue_head') \in {Len(queue_head), Len(queue_head) + 1}
          /\ SubSeq(queue_head', 1, Len(queue_head)) = queue_head
          /\ Len(queue_head') = Len(queue_head) + 1 => EnqueuedRecordIsCopy
    ]_vars

\* The stream has ended and its buffer is freed while the update that
\* carries the text is still queued behind the update of a tool handler,
\* and the store is as it was when the generation started.
C32_Witness ==
  /\ ~active
  /\ accumulated_text = NULL
  /\ messages = ToolMessages
  /\ \E i, j \in 1..Len(queue_head) :
       /\ i < j
       /\ queue_head[i].new_tool_executions # NULL
       /\ queue_head[j].new_content # NULL
       /\ ~queue_head[j].is_streaming


\* ---------------------------------------------------------------------
\* C31: no operation of the render thread or of a callback thread blocks
\* for ever on the session's lock or the queue's lock: a thread that
\* holds the queue's lock waits for nothing, a thread that holds the
\* session's lock waits for the queue's lock at most, no thread waits for
\* a lock it holds, and every operation that was entered returns.
\* ---------------------------------------------------------------------
IsWaitingFor(t, m) ==
  /\ IsBusy(t)
  /\ NextCall(t) = LockOf(m)
  /\ fn_result.owner[m] # NoOwner

Holds(t, m) == fn_result.owner[m] = {t}

BoundedCriticalSections ==
  \A t \in LockThreads :
    /\ Holds(t, QueueMutex)
         => /\ ~IsWaitingFor(t, StreamingMutex)
            /\ NextCall(t) = UnlockOf(QueueMutex)
    /\ Holds(t, StreamingMutex) => ~IsWaitingFor(t, StreamingMutex)
    /\ ~IsBusy(t) => ~Holds(t, QueueMutex) /\ ~Holds(t, StreamingMutex)

C31_NoOperationBlocksForever ==
  /\ []BoundedCriticalSections
  /\ \A t \in LockThreads : IsBusy(t) ~> ~IsBusy(t)

\* The contended case: the streaming callback holds the session's lock
\* and waits for the queue's lock, which the render thread holds for its
\* drain, while a tool handler waits for the session's lock.
C31_Witness ==
  \E t, u \in Producers :
    /\ Holds(t, StreamingMutex)
    /\ IsWaitingFor(t, QueueMutex)
    /\ Holds(RenderThread, QueueMutex)
    /\ fn_result.th[RenderThread].op = "drain"
    /\ fn_result.th[u].op = "tool_handler"
    /\ IsWaitingFor(u, StreamingMutex)

====
